---- MODULE Spec2Model ----
(***************************************************************************)
(* The upload / hourly-resampling / z-score anomaly pipeline of the        *)
(* RayField dashboard (src/tester.py), with the session and the plot       *)
(* cache it writes.                                                        *)
(*                                                                         *)
(* Numbers.  pandas works on IEEE doubles; the model works on exact        *)
(* rationals <<n, d>> (d > 0, lowest terms) extended with the three        *)
(* non-finite doubles: NaN = <<0, 0>>, +inf = <<1, 0>>, -inf = <<-1, 0>>.  *)
(* A standard deviation and a z-score are square roots of rationals; they  *)
(* are kept as "surds" <<s, q>> denoting s * sqrt(q), s in {-1, 0, 1}.     *)
(* Rounding error of doubles is not modelled.                              *)
(***************************************************************************)
EXTENDS Integers, Sequences, FiniteSets, TLC

(***************************************************************************)
(* Bounds of the model                                                     *)
(***************************************************************************)
MaxRows == 3
MaxCovRows == 2
LongHours == 11
MaxBuckets == 4

(***************************************************************************)
(* Program constants                                                       *)
(***************************************************************************)
DefaultThreshold == 3
HourMinutes == 60

(***************************************************************************)
(* Extended rational arithmetic (the float64 cells of a DataFrame)         *)
(***************************************************************************)
NaN == <<0, 0>>

Abs(x) == IF x < 0 THEN -x ELSE x

Sgn(x) == IF x < 0 THEN -1 ELSE IF x > 0 THEN 1 ELSE 0

RECURSIVE GCD(_, _)
GCD(a, b) == IF b = 0 THEN a ELSE GCD(b, a % b)

Rat(n, d) ==
  IF d = 0 THEN <<Sgn(n), 0>>
  ELSE LET g == GCD(Abs(n), Abs(d))
       IN  <<(Sgn(d) * n) \div g, Abs(d) \div g>>

FromInt(i) == <<i, 1>>

IsNaN(a) == a = NaN

IsFinite(a) == a[2] # 0

RatAdd(a, b) ==
  IF IsFinite(a) /\ IsFinite(b) THEN Rat(a[1] * b[2] + b[1] * a[2], a[2] * b[2])
  ELSE IF IsNaN(a) \/ IsNaN(b) THEN NaN
  ELSE IF IsFinite(a) THEN b
  ELSE IF IsFinite(b) THEN a
  ELSE IF a = b THEN a ELSE NaN

RatNeg(a) == <<-a[1], a[2]>>

RatSub(a, b) == RatAdd(a, RatNeg(b))

RatMul(a, b) ==
  IF IsFinite(a) /\ IsFinite(b) THEN Rat(a[1] * b[1], a[2] * b[2])
  ELSE IF IsNaN(a) \/ IsNaN(b) \/ a[1] = 0 \/ b[1] = 0 THEN NaN
  ELSE <<Sgn(a[1]) * Sgn(b[1]), 0>>

\* IEEE division: x/0 is +-inf, 0/0 and anything with NaN is NaN
RatDiv(a, b) ==
  IF IsFinite(a) /\ IsFinite(b) THEN Rat(a[1] * b[2], a[2] * b[1])
  ELSE IF IsNaN(a) \/ IsNaN(b) THEN NaN
  ELSE IF IsFinite(a) THEN <<0, 1>>
  ELSE IF IsFinite(b) THEN <<a[1] * (IF b[1] < 0 THEN -1 ELSE 1), 0>>
  ELSE NaN

\* a < b on doubles: every comparison with NaN is false
RatLess(a, b) ==
  IF IsNaN(a) \/ IsNaN(b) THEN FALSE
  ELSE IF IsFinite(a) /\ IsFinite(b) THEN a[1] * b[2] < b[1] * a[2]
  ELSE IF IsFinite(a) THEN b[1] > 0
  ELSE IF IsFinite(b) THEN a[1] < 0
  ELSE a[1] < b[1]

RatSgn(a) == Sgn(a[1])

(***************************************************************************)
(* Surds <<s, q>> = s * sqrt(q): the values of std() and of a z-score      *)
(***************************************************************************)
SurdNaN == <<0, NaN>>

SurdIsNaN(z) == IsNaN(z[2])

\* sqrt of a double: NaN for NaN and for negatives
Sqrt(q) ==
  IF IsNaN(q) \/ RatSgn(q) < 0 THEN SurdNaN
  ELSE <<RatSgn(q), q>>

\* std_output == 0
SurdIsZero(z) == ~SurdIsNaN(z) /\ z[1] = 0

\* rational / surd, as doubles divide
DivBySurd(a, z) ==
  IF IsNaN(a) \/ SurdIsNaN(z) THEN SurdNaN
  ELSE IF SurdIsZero(z) THEN
         (IF RatSgn(a) = 0 THEN SurdNaN ELSE <<RatSgn(a), <<1, 0>> >>)
  ELSE <<RatSgn(a) * z[1], RatDiv(RatMul(a, a), z[2])>>

\* np.abs(z) > threshold, threshold a rational
AbsGreater(z, t) ==
  IF SurdIsNaN(z) \/ IsNaN(t) THEN FALSE
  ELSE IF RatSgn(t) < 0 THEN TRUE
  ELSE RatLess(RatMul(t, t), z[2])

(***************************************************************************)
(* DataFrames: [cols |-> set of column names, rows |-> sequence of rows],  *)
(* a row being a function from the columns to cells.  A time cell is the   *)
(* minute it denotes (>= 0), NaT for a missing one, BadTs for a string     *)
(* that is no date; every other cell is an extended rational.              *)
(***************************************************************************)
NaT == -1

BadTs == -2

TimeCols == {"Timestamp", "date"}

IsNull(c, v) == IF c \in TimeCols THEN v = NaT ELSE IsNaN(v)

Range(s) == {s[i] : i \in DOMAIN s}

RECURSIVE SeqSum(_)
SeqSum(s) == IF s = <<>> THEN <<0, 1>> ELSE RatAdd(s[1], SeqSum(Tail(s)))

Column(df, c) == [i \in DOMAIN df.rows |-> df.rows[i][c]]

\* fillna(0) in place of dropna: null numbers become 0, every row is kept
DropNa_fillna(df, subset) ==
  [df EXCEPT !.rows =
     [i \in DOMAIN df.rows |->
        [c \in df.cols |->
           IF c \in subset /\ c \notin TimeCols /\ IsNaN(df.rows[i][c])
           THEN <<0, 1>> ELSE df.rows[i][c]]]]

\* df.dropna(subset=...): keep the rows with no null cell in the subset
DropNa(df, subset) ==
  [df EXCEPT !.rows = SelectSeq(df.rows, LAMBDA r : \A c \in subset : ~IsNull(c, r[c]))]

\* pd.to_datetime(cell, errors='coerce')
ToDatetime(v) == IF v < 0 THEN NaT ELSE v

\* df.rename(columns=map)
Rename(df, from, to) ==
  LET new(c) == IF \E k \in DOMAIN from : from[k] = c
                THEN to[CHOOSE k \in DOMAIN from : from[k] = c] ELSE c
      old(c) == IF \E k \in DOMAIN to : to[k] = c
                THEN from[CHOOSE k \in DOMAIN to : to[k] = c] ELSE c
      cols == {new(c) : c \in df.cols}
  IN  [cols |-> cols,
       rows |-> [i \in DOMAIN df.rows |-> [c \in cols |-> df.rows[i][old(c)]]]]

\* key order of sort_values: ascending, NaT last
DateBefore(a, b) == a # NaT /\ (b = NaT \/ a < b)

\* the rows of s in the order of their keys; rows with equal keys keep their
\* input order: a row's place is the number of rows that go before it
SortRows(s, c) ==
  LET goes_before(j, i) ==
        \/ DateBefore(s[j][c], s[i][c])
        \/ ~DateBefore(s[i][c], s[j][c]) /\ j < i
      place == [i \in DOMAIN s |-> Cardinality({j \in DOMAIN s : goes_before(j, i)}) + 1]
  IN  [k \in DOMAIN s |-> s[CHOOSE i \in DOMAIN s : place[i] = k]]

\* df.sort_values(col); rows with equal keys keep their input order
SortValues(df, c) == [df EXCEPT !.rows = SortRows(df.rows, c)]

\* Series.mean(): NaN cells are skipped, and the mean of nothing is NaN
Mean(s) ==
  LET vals == SelectSeq(s, LAMBDA v : ~IsNaN(v))
  IN  IF vals = <<>> THEN NaN ELSE RatDiv(SeqSum(vals), FromInt(Len(vals)))

\* the sample variance in place of the standard deviation (no square root)
Std_variance(s) ==
  LET vals == SelectSeq(s, LAMBDA v : ~IsNaN(v))
      n    == Len(vals)
      avg  == RatDiv(SeqSum(vals), FromInt(n))
      sqr  == SeqSum([i \in DOMAIN vals |->
                        RatMul(RatSub(vals[i], avg), RatSub(vals[i], avg))])
      var  == RatDiv(sqr, FromInt(n - 1))
  IN  IF n - 1 <= 0 THEN SurdNaN ELSE Sqrt(RatMul(var, var))

\* Series.std(): sample standard deviation (ddof = 1), two passes as nanvar does
Std(s) ==
  LET vals == SelectSeq(s, LAMBDA v : ~IsNaN(v))
      n    == Len(vals)
      avg  == RatDiv(SeqSum(vals), FromInt(n))
      sqr  == SeqSum([i \in DOMAIN vals |->
                        RatMul(RatSub(vals[i], avg), RatSub(vals[i], avg))])
  IN  IF n - 1 <= 0 THEN SurdNaN ELSE Sqrt(RatDiv(sqr, FromInt(n - 1)))

RECURSIVE SeqMax(_)
SeqMax(s) ==
  IF s = <<>> THEN NaN
  ELSE LET m == SeqMax(Tail(s))
       IN  IF IsNaN(m) \/ RatLess(m, s[1]) THEN s[1] ELSE m

RECURSIVE SeqMin(_)
SeqMin(s) ==
  IF s = <<>> THEN NaN
  ELSE LET m == SeqMin(Tail(s))
       IN  IF IsNaN(m) \/ RatLess(s[1], m) THEN s[1] ELSE m

\* the nearest hour in place of the enclosing hour
HourOf_round(t) == ((t + HourMinutes \div 2) \div HourMinutes) * HourMinutes

HourOf(t) == (t \div HourMinutes) * HourMinutes

\* the hourly bins resample("1H") lays out: every hour from the first
\* reading's to the last reading's, with or without readings in it
Bins(df) ==
  LET ts == {df.rows[i]["date"] : i \in DOMAIN df.rows}
      lo == HourOf(CHOOSE t \in ts : \A u \in ts : t <= u)
      hi == HourOf(CHOOSE t \in ts : \A u \in ts : t >= u)
  IN  IF ts = {} THEN <<>>
      ELSE [k \in 1..((hi - lo) \div HourMinutes + 1) |-> lo + (k - 1) * HourMinutes]

\* resample("1H").sum() in place of .mean(): an empty bin sums to 0
ResampleMean_sum(df) ==
  LET bins == Bins(df)
      data == df.cols \ {"date"}
      inbin(h) == SelectSeq(df.rows, LAMBDA r : HourOf(r["date"]) = h)
  IN  [index |-> bins,
       cols  |-> data,
       rows  |-> [k \in DOMAIN bins |->
                    [c \in data |->
                       SeqSum(SelectSeq(Column([cols |-> df.cols, rows |-> inbin(bins[k])], c),
                                        LAMBDA v : ~IsNaN(v)))]]]

\* df.set_index("date").resample("1H").mean(): one row per bin, each other
\* column reduced by mean over the bin's rows (NaN for an empty bin)
ResampleMean(df) ==
  LET bins == Bins(df)
      data == df.cols \ {"date"}
      inbin(h) == SelectSeq(df.rows, LAMBDA r : HourOf(r["date"]) = h)
  IN  [index |-> bins,
       cols  |-> data,
       rows  |-> [k \in DOMAIN bins |->
                    [c \in data |-> Mean(Column([cols |-> df.cols, rows |-> inbin(bins[k])], c))]]]

\* the resampled frame with its empty bins left in
DropNaAny_skipped(rs) == rs

\* .dropna() on the resampled frame: a bin goes when any of its cells is NaN
DropNaAny(rs) ==
  LET keep == {k \in DOMAIN rs.rows : \A c \in rs.cols : ~IsNaN(rs.rows[k][c])}
      idx  == SelectSeq([k \in DOMAIN rs.rows |-> k], LAMBDA k : k \in keep)
  IN  [index |-> [j \in DOMAIN idx |-> rs.index[idx[j]]],
       cols  |-> rs.cols,
       rows  |-> [j \in DOMAIN idx |-> rs.rows[idx[j]]]]

\* .reset_index(): the bin starts become the column "date"
ResetIndex(rs) ==
  [cols |-> rs.cols \cup {"date"},
   rows |-> [k \in DOMAIN rs.rows |->
               [c \in rs.cols \cup {"date"} |->
                  IF c = "date" THEN rs.index[k] ELSE rs.rows[k][c]]]]

\* df[col] = values: the column is added or overwritten
WithColumn(df, c, vals) ==
  [cols |-> df.cols \cup {c},
   rows |-> [i \in DOMAIN df.rows |->
               [d \in df.cols \cup {c} |-> IF d = c THEN vals[i] ELSE df.rows[i][d]]]]

(***************************************************************************)
(* The functions of src/tester.py                                          *)
(***************************************************************************)
required_solar_cols == {"Timestamp", "SolarGeneration"}

\* no column is ever reported missing
MissingColumns_none(cols) == {}

\* line 182: missing = required_solar_cols - set(df.columns)
MissingColumns(cols) == required_solar_cols \ cols

\* lines 185-189 of upload: null rows dropped, timestamps parsed, columns
\* renamed, rows sorted by date, rows with an unparsable timestamp dropped
CleanRows(raw) ==
  LET a == DropNa(raw, {"SolarGeneration", "Timestamp"})
      b == [a EXCEPT !.rows = [i \in DOMAIN a.rows |->
                                 [a.rows[i] EXCEPT !["Timestamp"] = ToDatetime(@)]]]
      c == Rename(b, <<"SolarGeneration", "Timestamp">>, <<"output_kwh", "date">>)
      d == SortValues(c, "date")
  IN  DropNa(d, {"output_kwh", "date"})

\* every reading kept as a row of its own, stamped with its hour
ResampleHourly_ungrouped(df) ==
  [df EXCEPT !.rows = [i \in DOMAIN df.rows |-> [df.rows[i] EXCEPT !["date"] = HourOf(@)]]]

\* line 192 of upload
ResampleHourly(df) == ResetIndex(DropNaAny(ResampleMean(df)))

\* The state of numpy's global generator: Unseeded as the process starts
\* (seeded from the operating system), else the number of values drawn since
\* the last np.random.seed(42).
Unseeded == -1

MockPeriods == 24

\* np.random.seed(42), whatever the state was
np_random_seed(state) == 0

\* np.random.uniform(low, high, n): the generator after the n draws
Advance(state, n) == IF state = Unseeded THEN state ELSE state + n

\* the generator is followed as far as MaxDrawn draws after a seeding: the
\* uploads served along with other requests have drawn fewer when they draw
\* again
MaxDrawn == 7

Followed(state) == IF state > MaxDrawn THEN MaxDrawn ELSE state

\* a value drawn at another place of the generator's sequence than the one
\* an upload running alone draws it at
Perturbed == <<0, 1>>

\* np.random.uniform(low, high, n): the n values drawn.  The k-th value
\* after the seeding is a fixed number, FromInt(k) stands for it; own is the
\* number of values the calling request has drawn since it seeded, so the
\* values are those of an upload running alone when state = own
Simulated(state, n, own) ==
  [i \in 1..n |-> IF state = own THEN FromInt(state + i) ELSE Perturbed]

WeatherCols == <<"AirTemperature", "RelativeHumidity", "WindSpeed">>

\* lines 199-204 of upload, one column: it is simulated when the file lacks it
SimulateColumn(h, c, state, own) ==
  IF c \in h.cols THEN [df |-> h, state |-> state, own |-> own]
  ELSE [df    |-> WithColumn(h, c, Simulated(state, Len(h.rows), own)),
        state |-> Advance(state, Len(h.rows)),
        own   |-> own + Len(h.rows)]

\* lines 196-204 of upload run without interruption from the generator
\* state given: the frame and the generator afterwards
SimulateWeatherFrom(h, state) ==
  LET a == SimulateColumn(h, WeatherCols[1], np_random_seed(state), 0)
      b == SimulateColumn(a.df, WeatherCols[2], a.state, a.own)
  IN  SimulateColumn(b.df, WeatherCols[3], b.state, b.own)

\* lines 196-204 of upload: weather columns the file lacks are simulated
SimulateWeather(h) == SimulateWeatherFrom(h, Unseeded).df

\* a model fitted on the simulated temperatures along with the outputs
train_model_weather(df) ==
  LET s == IF "AirTemperature" \in df.cols
           THEN Column(df, "output_kwh") \o Column(df, "AirTemperature")
           ELSE Column(df, "output_kwh")
  IN  [mean |-> Mean(s), std |-> Std(s)]

train_model(df) ==
  [mean |-> Mean(Column(df, "output_kwh")), std |-> Std(Column(df, "output_kwh"))]

\* predict_anomalies with ">=" in place of ">"
predict_anomalies_ge(model, df, threshold) ==
  IF SurdIsZero(model.std)
  THEN [ret |-> [i \in DOMAIN df.rows |-> FALSE], df |-> df]
  ELSE LET z  == [i \in DOMAIN df.rows |->
                    DivBySurd(RatSub(df.rows[i]["output_kwh"], model.mean), model.std)]
           d1 == WithColumn(df, "z_score", z)
           d2 == WithColumn(d1, "anomaly",
                            [i \in DOMAIN z |-> AbsGreater(z[i], threshold) \/
                               (~SurdIsNaN(z[i]) /\ z[i][2] = RatMul(threshold, threshold))])
       IN  [ret |-> Column(d2, "anomaly"), df |-> d2]

\* predict_anomalies without the zero guard, flagging whatever is not
\* within the threshold (NaN included)
predict_anomalies_nan_unsafe(model, df, threshold) ==
  LET z  == [i \in DOMAIN df.rows |->
               DivBySurd(RatSub(df.rows[i]["output_kwh"], model.mean), model.std)]
      d1 == WithColumn(df, "z_score", z)
      d2 == WithColumn(d1, "anomaly",
                       [i \in DOMAIN z |->
                          SurdIsNaN(z[i]) \/ AbsGreater(z[i], threshold)])
  IN  [ret |-> Column(d2, "anomaly"), df |-> d2]

\* predict_anomalies returning the flags of the anomalous rows only
predict_anomalies_filtered(model, df, threshold) ==
  IF SurdIsZero(model.std)
  THEN [ret |-> [i \in DOMAIN df.rows |-> FALSE], df |-> df]
  ELSE LET z  == [i \in DOMAIN df.rows |->
                    DivBySurd(RatSub(df.rows[i]["output_kwh"], model.mean), model.std)]
           d1 == WithColumn(df, "z_score", z)
           d2 == WithColumn(d1, "anomaly",
                            [i \in DOMAIN z |-> AbsGreater(z[i], threshold)])
       IN  [ret |-> SelectSeq(Column(d2, "anomaly"), LAMBDA b : b), df |-> d2]

\* predict_anomalies scoring (-output - mean) / std
predict_anomalies_negated(model, df, threshold) ==
  IF SurdIsZero(model.std)
  THEN [ret |-> [i \in DOMAIN df.rows |-> FALSE], df |-> df]
  ELSE LET z  == [i \in DOMAIN df.rows |->
                    DivBySurd(RatSub(RatNeg(df.rows[i]["output_kwh"]), model.mean),
                              model.std)]
           d1 == WithColumn(df, "z_score", z)
           d2 == WithColumn(d1, "anomaly",
                            [i \in DOMAIN z |-> AbsGreater(z[i], threshold)])
       IN  [ret |-> Column(d2, "anomaly"), df |-> d2]

\* returns the Series and the frame as the call leaves it (the normal path
\* writes the columns z_score and anomaly into the caller's frame)
predict_anomalies(model, df, threshold) ==
  IF SurdIsZero(model.std)
  THEN [ret |-> [i \in DOMAIN df.rows |-> FALSE], df |-> df]
  ELSE LET z  == [i \in DOMAIN df.rows |->
                    DivBySurd(RatSub(df.rows[i]["output_kwh"], model.mean), model.std)]
           d1 == WithColumn(df, "z_score", z)
           d2 == WithColumn(d1, "anomaly",
                            [i \in DOMAIN z |-> AbsGreater(z[i], threshold)])
       IN  [ret |-> Column(d2, "anomaly"), df |-> d2]

\* lines 208-210 of upload
LabelHourly(model, h) ==
  LET p  == predict_anomalies(model, h, FromInt(DefaultThreshold))
      d1 == WithColumn(p.df, "anomaly", p.ret)
  IN  WithColumn(d1, "z_score",
                 [i \in DOMAIN d1.rows |->
                    DivBySurd(RatSub(d1.rows[i]["output_kwh"], model.mean), model.std)])

\* the statistics over the buckets not flagged
Stats_normal_only(h) ==
  LET out == Column([h EXCEPT !.rows = SelectSeq(h.rows, LAMBDA r : ~r["anomaly"])],
                    "output_kwh")
  IN  [max_output   |-> SeqMax(out),
       min_output   |-> SeqMin(out),
       avg_output   |-> Mean(out),
       total_output |-> SeqSum(out),
       data_points  |-> Len(out)]

\* lines 266-272 of upload
Stats(h) ==
  LET out == Column(h, "output_kwh")
  IN  [max_output   |-> SeqMax(out),
       min_output   |-> SeqMin(out),
       avg_output   |-> Mean(out),
       total_output |-> SeqSum(out),
       data_points  |-> Len(h.rows)]

MaxDatesShown == 5

DayMinutes == 1440

\* date.strftime('%Y-%m-%d %H:%M'): the day, the hour and the minute
Strftime(t) == <<t \div DayMinutes, (t % DayMinutes) \div HourMinutes, t % HourMinutes>>

\* a['date'].strftime('%Y-%m-%d %H:%M:%S'): the day, the hour, the minute
\* and the second (hourly buckets have no seconds)
StrftimeSeconds(t) == Append(Strftime(t), 0)

\* the anomaly table with a line for every bucket, flagged or not
FormattedAnomalies_unfiltered(h) ==
  [i \in DOMAIN h.rows |-> [timestamp     |-> StrftimeSeconds(h.rows[i]["date"]),
                            energy_output |-> h.rows[i]["output_kwh"],
                            z_score       |-> h.rows[i]["z_score"]]]

\* lines 252-260 of upload
FormattedAnomalies(h) ==
  LET a == SelectSeq(h.rows, LAMBDA r : r["anomaly"])
  IN  [i \in DOMAIN a |-> [timestamp     |-> StrftimeSeconds(a[i]["date"]),
                           energy_output |-> a[i]["output_kwh"],
                           z_score       |-> a[i]["z_score"]]]

\* round(x, 2): the nearest hundredth, ties to the even one
Round2(a) ==
  IF ~IsFinite(a) THEN a
  ELSE LET n == a[1] * 100
           q == n \div a[2]
           r == n - q * a[2]
       IN  IF 2 * r < a[2] THEN Rat(q, 100)
           ELSE IF 2 * r > a[2] THEN Rat(q + 1, 100)
           ELSE Rat(IF q % 2 = 0 THEN q ELSE q + 1, 100)

\* generate_summary without the "None detected." branch: an empty list is
\* printed as it is
generate_summary_no_none(h) ==
  LET a     == SelectSeq(h.rows, LAMBDA r : r["anomaly"])
      dates == [i \in DOMAIN a |-> Strftime(a[i]["date"])]
      n     == Len(dates)
      shown == SubSeq(dates, 1, IF n > MaxDatesShown THEN MaxDatesShown ELSE n)
  IN  [avg_output        |-> Round2(Mean(Column(h, "output_kwh"))),
       anomalies_display |-> [dates |-> shown,
                              more  |-> IF n > MaxDatesShown THEN n - MaxDatesShown ELSE 0,
                              none  |-> FALSE],
       peak_output       |-> SeqMax(Column(h, "output_kwh"))]

\* the text is kept in its parts: the dates listed, the "... (k more)"
\* suffix (more = 0 when there is none) and whether "None detected." stands
\* in place of the list
generate_summary(h) ==
  LET a     == SelectSeq(h.rows, LAMBDA r : r["anomaly"])
      dates == [i \in DOMAIN a |-> Strftime(a[i]["date"])]
      n     == Len(dates)
      shown == SubSeq(dates, 1, IF n > MaxDatesShown THEN MaxDatesShown ELSE n)
  IN  [avg_output        |-> Round2(Mean(Column(h, "output_kwh"))),
       anomalies_display |-> [dates |-> shown,
                              more  |-> IF n > MaxDatesShown THEN n - MaxDatesShown ELSE 0,
                              none  |-> n = 0],
       peak_output       |-> SeqMax(Column(h, "output_kwh"))]

PlotNames ==
  <<"time_series_plot", "temp_scatter_plot", "humidity_scatter_plot", "wind_dual_axis_plot">>

\* plot_image_cache[plot_id] = image
CachePut(cache, id, img) ==
  [i \in DOMAIN cache \cup {id} |-> IF i = id THEN img ELSE cache[i]]

\* the value upload stores under session['processed_data_keys']
ProcessedDataKeys(ids, summary, h) ==
  [plot_ids  |-> [n \in Range(PlotNames) |->
                    ids[CHOOSE k \in DOMAIN PlotNames : PlotNames[k] = n]],
   summary   |-> summary,
   stats     |-> Stats(h),
   anomalies |-> FormattedAnomalies(h)]

(***************************************************************************)
(* Inputs: the CSV files a client may upload                               *)
(***************************************************************************)
SeqsUpTo(S, n) == UNION {[1..k -> S] : k \in 0..n}

BaseCols == {"Timestamp", "SolarGeneration"}

Row2(t, o) == [c \in BaseCols |-> IF c = "Timestamp" THEN t ELSE o]

Row3(t, o, a) ==
  [c \in BaseCols \cup {"AirTemperature"} |->
     IF c = "Timestamp" THEN t ELSE IF c = "SolarGeneration" THEN o ELSE a]

\* readings at 0:00, 0:45 and 2:10 with a null, a negative or a positive
\* output, and readings with a missing or an unparsable timestamp
Rows2 ==
  {Row2(t, o) : t \in {0, 45, 130}, o \in {NaN, <<-2, 1>>, <<4, 1>>}}
    \cup {Row2(t, <<4, 1>>) : t \in {NaT, BadTs}}

Rows3 ==
  {Row3(t, o, a) : t \in {0, 130}, o \in {<<-2, 1>>, <<4, 1>>}, a \in {NaN, <<1, 1>>}}

SmallFiles == {[cols |-> BaseCols, rows |-> r] : r \in SeqsUpTo(Rows2, MaxRows)}

CovFiles ==
  {[cols |-> BaseCols \cup {"AirTemperature"}, rows |-> r] :
     r \in SeqsUpTo(Rows3, MaxCovRows)}

\* files that lack a required column
BadColFiles ==
  {[cols |-> cs, rows |-> r] :
     cs \in {{"Timestamp"}, {"SolarGeneration"}, {"AirTemperature"}},
     r \in {<<>>}}
    \cup {[cols |-> {"Timestamp"}, rows |-> <<[c \in {"Timestamp"} |-> 0]>>],
          [cols |-> {"SolarGeneration"}, rows |-> <<[c \in {"SolarGeneration"} |-> <<4, 1>>]>>]}

\* one reading per hour at minute 7 over LongHours hours, all of output b
\* but the one of hour k, of output d
LongFile(k, b, d) ==
  [cols |-> BaseCols,
   rows |-> [i \in 1..LongHours |->
               Row2((i - 1) * HourMinutes + 7, IF i = k THEN d ELSE b)]]

LongFiles ==
  {LongFile(k, <<1, 1>>, <<4, 1>>) : k \in 0..LongHours}

\* one reading per hour over 2 * LongHours - 1 hours, all of output 1 but
\* those of the third hour and of the last but one, of output 4
TwoOutlierFile ==
  [cols |-> BaseCols,
   rows |-> [i \in 1..(2 * LongHours - 1) |->
               Row2((i - 1) * HourMinutes + 7,
                    IF i \in {3, 2 * LongHours - 2} THEN <<4, 1>> ELSE <<1, 1>>)]]

\* a file with no header line: pd.read_csv finds no columns to parse
EmptyFile == [cols |-> {}, rows |-> <<>>]

\* one day of readings every 15 minutes, all of output 150, followed by one
\* reading of output 900 at 14:07
ScenarioFile ==
  [cols |-> BaseCols,
   rows |-> [i \in 1..97 |->
               IF i = 97 THEN Row2(14 * HourMinutes + 7, <<900, 1>>)
               ELSE Row2((i - 1) * 15, <<150, 1>>)]]

Files ==
  SmallFiles \cup CovFiles \cup BadColFiles \cup LongFiles
    \cup {EmptyFile, ScenarioFile, TwoOutlierFile}

Sessions == {"s1"}

(***************************************************************************)
(* The server: werkzeug's development server gives every request a thread  *)
(* of its own; a thread's record holds the handler it runs, where it        *)
(* stands, the session as loaded from the client's cookie, and the locals   *)
(* of the handler                                                           *)
(***************************************************************************)
MaxRequests == 2

Threads == {1, 2}

IdleThread ==
  [handler        |-> "idle",
   pc             |-> "idle",
   client         |-> "",
   sess           |-> <<>>,     \* session: <<>> or <<processed_data_keys>>
   modified       |-> FALSE,    \* session.modified
   file           |-> <<>>,
   df_hourly      |-> <<>>,
   model_params   |-> <<>>,
   labels         |-> <<>>,
   weekly_summary |-> <<>>,
   plots_keys     |-> <<>>,
   keys           |-> <<>>,     \* dashboard, logout: processed_data_keys
   loop           |-> 0,        \* the position of a loop over the plots
   drawn          |-> 0,        \* upload: the values drawn since its seeding
   serial         |-> 0,        \* the number of the request among those received
   raced          |-> FALSE,    \* upload, until its plots: another upload fitted
                                \* its model between this one's fitting and labelling
   retrieved      |-> {},       \* dashboard: the plots retrieved
   response       |-> <<>>]

\* analyses: the results of the uploads that went through, with their files;
\* consumed: the plot ids of the results a dashboard has displayed;
\* started: the number of requests received
NoHistory == [analyses |-> {}, consumed |-> {}, started |-> 0]

(***************************************************************************)
(* State                                                                   *)
(***************************************************************************)
VARIABLES
  pc,                \* where the request being served stands
  request,           \* <<>> or <<[sid, file]>>: the POST being served
  df,                \* <<>> or <<the cleaned readings>>
  df_hourly,         \* <<>> or <<the hourly frame>>
  model_params,      \* <<>> or <<[mean, std]>>
  threshold,         \* the threshold predict_anomalies is called with
  labels,            \* <<>> or <<the Series predict_anomalies returned>>
  weekly_summary,    \* <<>> or <<the summary>>
  plots_keys,        \* the plot ids generated so far, in the order of PlotNames
  response,          \* <<>> or <<[status, body]>>
  session,           \* per client: <<>> or <<processed_data_keys>>
  plot_image_cache,  \* plot id -> image
  next_uuid,         \* the ids uuid4 has handed out are 1..next_uuid-1
  np_random,         \* the state of numpy's global generator
  threads,           \* the server's request threads: handler, position, locals
  history            \* what has been analysed and displayed so far

vars ==
  <<pc, request, df, df_hourly, model_params, threshold, labels, weekly_summary,
    plots_keys, response, session, plot_image_cache, next_uuid, np_random,
    threads, history>>

Init ==
  /\ pc = "idle"
  /\ request = <<>>
  /\ df = <<>>
  /\ df_hourly = <<>>
  /\ model_params = <<>>
  /\ threshold = FromInt(DefaultThreshold)
  /\ labels = <<>>
  /\ weekly_summary = <<>>
  /\ plots_keys = <<>>
  /\ response = <<>>
  /\ session = [s \in Sessions |-> <<>>]
  /\ plot_image_cache = <<>>
  /\ next_uuid = 1
  /\ np_random = Unseeded
  /\ threads = [t \in Threads |-> IdleThread]
  /\ history = NoHistory

(***************************************************************************)
(* upload(), POST: one action per step of the handler                      *)
(***************************************************************************)
\* line 22
ALLOWED_EXTENSIONS == {<<"c", "s", "v">>}

\* str.lower() on the letters that occur in the file names of the model
LowerChar(c) ==
  CASE c = "C" -> "c" [] c = "S" -> "s" [] c = "V" -> "v" [] c = "T" -> "t"
    [] c = "X" -> "x" [] c = "A" -> "a" [] OTHER -> c

lower(str) == [i \in DOMAIN str |-> LowerChar(str[i])]

\* filename.rsplit('.', 1)[1] of a name with a dot: the text after the last
\* dot
rsplit_last(filename) ==
  LET dot == CHOOSE i \in DOMAIN filename :
               /\ filename[i] = "."
               /\ \A j \in DOMAIN filename : j > i => filename[j] # "."
  IN  SubSeq(filename, dot + 1, Len(filename))

\* a name is accepted when it ends with csv, with or without a dot
allowed_file_suffix(filename) ==
  /\ Len(filename) >= 3
  /\ lower(SubSeq(filename, Len(filename) - 2, Len(filename))) \in ALLOWED_EXTENSIONS

\* lines 32-35
allowed_file(filename) ==
  /\ \E i \in DOMAIN filename : filename[i] = "."
  /\ lower(rsplit_last(filename)) \in ALLOWED_EXTENSIONS

\* file names a client may send, as sequences of characters
FileNames ==
  {<<>>,
   <<"a", ".", "c", "s", "v">>, <<"a", ".", "C", "s", "V">>, <<".", "c", "s", "v">>,
   <<"a", ".", "t", "x", "t", ".", "c", "s", "v">>,
   <<"c", "s", "v">>, <<"a", "c", "s", "v">>, <<"a", ".", "t", "x", "t">>,
   <<"a", ".", "c", "s", "v", ".", "T", "X", "T">>, <<"a", ".", "c", "s", "v", ".">>,
   <<"a", ".", "c", "s">>, <<"a", ".", "c", "s", "v", "x">>}

DefaultName == <<"d", "a", "t", "a", ".", "c", "s", "v">>

\* the form fields a client may send the file under
Parts == {"csv_file", "file"}

\* upload requests: every file of the model under the field csv_file with
\* the name data.csv, and one well-formed file under each field and name
Requests ==
  {[part |-> "csv_file", filename |-> DefaultName, file |-> f] : f \in Files}
    \cup {[part |-> p, filename |-> n, file |-> LongFile(1, <<1, 1>>, <<4, 1>>)] :
            p \in Parts, n \in FileNames}

\* lines 168-173, 282-283: a client posts a request; one without the
\* csv_file part, with an empty file name or with a name that is not
\* allowed is answered 400
Post(s, q) ==
  /\ pc = "idle"
  /\ request' = <<[sid |-> s, file |-> q.file, part |-> q.part, filename |-> q.filename]>>
  /\ IF q.part # "csv_file"
     THEN /\ response' = <<[status |-> 400, body |-> "No file part"]>>
          /\ pc' = "done"
     ELSE IF q.filename = <<>>
     THEN /\ response' = <<[status |-> 400, body |-> "No selected file"]>>
          /\ pc' = "done"
     ELSE IF allowed_file(q.filename)
     THEN /\ response' = response
          /\ pc' = "read"
     ELSE /\ response' = <<[status |-> 400,
                            body |-> "Invalid file type. Please upload a CSV file."]>>
          /\ pc' = "done"
  /\ UNCHANGED <<df, df_hourly, model_params, threshold, labels, weekly_summary,
                 plots_keys, session, plot_image_cache, next_uuid>>
  /\ UNCHANGED <<np_random, threads, history>>

\* line 176: the file is parsed
ReadCsv ==
  /\ pc = "read"
  /\ request[1].file.cols # {}
  /\ pc' = "validate"
  /\ UNCHANGED <<request, df, df_hourly, model_params, threshold, labels,
                 weekly_summary, plots_keys, response, session, plot_image_cache,
                 next_uuid>>
  /\ UNCHANGED <<np_random, threads, history>>

\* lines 176, 278-281: pd.read_csv raises on a file with nothing to parse;
\* the handler answers 500
ReadRaises ==
  /\ pc = "read"
  /\ request[1].file.cols = {}
  /\ response' = <<[status |-> 500, body |-> "Error processing file"]>>
  /\ pc' = "done"
  /\ UNCHANGED <<request, df, df_hourly, model_params, threshold, labels,
                 weekly_summary, plots_keys, session, plot_image_cache, next_uuid>>
  /\ UNCHANGED <<np_random, threads, history>>

\* lines 180-183: a file without the two required columns is answered 400
ValidateColumns ==
  /\ pc = "validate"
  /\ IF MissingColumns(request[1].file.cols) = {}
     THEN /\ pc' = "clean"
          /\ response' = response
     ELSE /\ pc' = "done"
          /\ response' = <<[status |-> 400, body |-> "Missing required columns in CSV"]>>
  /\ UNCHANGED <<request, df, df_hourly, model_params, threshold, labels,
                 weekly_summary, plots_keys, session, plot_image_cache, next_uuid>>
  /\ UNCHANGED <<np_random, threads, history>>

\* lines 185-189
Clean ==
  /\ pc = "clean"
  /\ df' = <<CleanRows(request[1].file)>>
  /\ pc' = "resample"
  /\ UNCHANGED <<request, df_hourly, model_params, threshold, labels, weekly_summary,
                 plots_keys, response, session, plot_image_cache, next_uuid>>
  /\ UNCHANGED <<np_random, threads, history>>

\* lines 192-204
Resample ==
  /\ pc = "resample"
  /\ LET w == SimulateWeatherFrom(ResampleHourly(df[1]), np_random)
     IN  /\ df_hourly' = <<w.df>>
         /\ np_random' = Followed(w.state)
  /\ pc' = "train"
  /\ UNCHANGED <<threads, history>>
  /\ UNCHANGED <<request, df, model_params, threshold, labels, weekly_summary,
                 plots_keys, response, session, plot_image_cache, next_uuid>>

\* line 207
TrainModel ==
  /\ pc = "train"
  /\ model_params' = <<train_model(df_hourly[1])>>
  /\ pc' = "predict"
  /\ UNCHANGED <<request, df, df_hourly, threshold, labels, weekly_summary,
                 plots_keys, response, session, plot_image_cache, next_uuid>>
  /\ UNCHANGED <<np_random, threads, history>>

\* lines 208-210
Predict ==
  /\ pc = "predict"
  /\ df_hourly' = <<LabelHourly(model_params[1], df_hourly[1])>>
  /\ labels' = <<predict_anomalies(model_params[1], df_hourly[1], threshold).ret>>
  /\ pc' = "summary"
  /\ UNCHANGED <<request, df, model_params, threshold, weekly_summary,
                 plots_keys, response, session, plot_image_cache, next_uuid>>
  /\ UNCHANGED <<np_random, threads, history>>

\* line 213
Summarize ==
  /\ pc = "summary"
  /\ weekly_summary' = <<generate_summary(df_hourly[1])>>
  /\ pc' = "plots"
  /\ UNCHANGED <<request, df, df_hourly, model_params, threshold, labels,
                 plots_keys, response, session, plot_image_cache, next_uuid>>
  /\ UNCHANGED <<np_random, threads, history>>

\* lines 219-249: the next of the four plots is rendered and cached under a
\* fresh uuid
Plot ==
  /\ pc = "plots"
  /\ Len(plots_keys) < Len(PlotNames)
  /\ plot_image_cache' = CachePut(plot_image_cache, next_uuid, PlotNames[Len(plots_keys) + 1])
  /\ plots_keys' = Append(plots_keys, next_uuid)
  /\ next_uuid' = next_uuid + 1
  /\ UNCHANGED <<pc, request, df, df_hourly, model_params, threshold, labels,
                 weekly_summary, response, session>>
  /\ UNCHANGED <<np_random, threads, history>>

\* lines 278-281: rendering (matplotlib, seaborn) raises; the handler
\* answers 500
PlotRaises ==
  /\ pc = "plots"
  /\ Len(plots_keys) < Len(PlotNames)
  /\ response' = <<[status |-> 500, body |-> "Error processing file"]>>
  /\ pc' = "done"
  /\ UNCHANGED <<request, df, df_hourly, model_params, threshold, labels,
                 weekly_summary, plots_keys, session, plot_image_cache, next_uuid>>
  /\ UNCHANGED <<np_random, threads, history>>

\* lines 251-276
StoreSession ==
  /\ pc = "plots"
  /\ Len(plots_keys) = Len(PlotNames)
  /\ session' = [session EXCEPT ![request[1].sid] =
                   <<ProcessedDataKeys(plots_keys, weekly_summary[1], df_hourly[1])>>]
  /\ response' = <<[status |-> 302, body |-> "dashboard"]>>
  /\ pc' = "done"
  /\ UNCHANGED <<request, df, df_hourly, model_params, threshold, labels,
                 weekly_summary, plots_keys, plot_image_cache, next_uuid>>
  /\ UNCHANGED <<np_random, threads, history>>

Next ==
  \/ pc = "idle" /\ \E s \in Sessions, q \in Requests : Post(s, q)
  \/ ReadCsv
  \/ ReadRaises
  \/ ValidateColumns
  \/ Clean
  \/ Resample
  \/ TrainModel
  \/ Predict
  \/ Summarize
  \/ Plot
  \/ PlotRaises
  \/ StoreSession

Spec == Init /\ [][Next]_vars

(***************************************************************************)
(* train_model and predict_anomalies on their own: any hourly frame of at  *)
(* most MaxBuckets buckets, any threshold                                  *)
(***************************************************************************)
LabelOutputs == {<<0, 1>>, <<1, 1>>, <<5, 2>>}

Thresholds ==
  {<<-1, 1>>, <<0, 1>>, <<1, 2>>, <<1, 1>>, <<3, 2>>, <<2, 1>>, FromInt(DefaultThreshold)}

HourlyFrame(outs) ==
  [cols |-> {"date", "output_kwh"},
   rows |-> [i \in DOMAIN outs |->
               [c \in {"date", "output_kwh"} |->
                  IF c = "date" THEN (i - 1) * HourMinutes ELSE outs[i]]]]

InitLabel ==
  /\ pc = "fit"
  /\ request = <<>>
  /\ df = <<>>
  /\ df_hourly \in {<<HourlyFrame(o)>> : o \in SeqsUpTo(LabelOutputs, MaxBuckets)}
  /\ model_params = <<>>
  /\ threshold \in Thresholds
  /\ labels = <<>>
  /\ weekly_summary = <<>>
  /\ plots_keys = <<>>
  /\ response = <<>>
  /\ session = [s \in Sessions |-> <<>>]
  /\ plot_image_cache = <<>>
  /\ next_uuid = 1
  /\ np_random = Unseeded
  /\ threads = [t \in Threads |-> IdleThread]
  /\ history = NoHistory

\* model = train_model(df)
Fit ==
  /\ pc = "fit"
  /\ model_params' = <<train_model(df_hourly[1])>>
  /\ pc' = "label"
  /\ UNCHANGED <<request, df, df_hourly, threshold, labels, weekly_summary,
                 plots_keys, response, session, plot_image_cache, next_uuid>>
  /\ UNCHANGED <<np_random, threads, history>>

\* predict_anomalies(model, df, threshold)
Label ==
  /\ pc = "label"
  /\ LET p == predict_anomalies(model_params[1], df_hourly[1], threshold)
     IN  /\ labels' = <<p.ret>>
         /\ df_hourly' = <<p.df>>
  /\ pc' = "labelled"
  /\ UNCHANGED <<request, df, model_params, threshold, weekly_summary,
                 plots_keys, response, session, plot_image_cache, next_uuid>>
  /\ UNCHANGED <<np_random, threads, history>>

NextLabel == Fit \/ Label

SpecLabel == InitLabel /\ [][NextLabel]_vars

(***************************************************************************)
(* train_model and predict_anomalies at the default threshold on series of *)
(* up to LongHours buckets of two values, and on shorter series of three   *)
(***************************************************************************)
SeriesOutputs ==
  UNION {[1..n -> {<<1, 1>>, <<4, 1>>}] : n \in 1..LongHours}
    \cup SeqsUpTo({<<0, 1>>, <<1, 1>>, <<5, 2>>}, MaxBuckets + 2)

InitSeries ==
  /\ pc = "fit"
  /\ request = <<>>
  /\ df = <<>>
  /\ df_hourly \in {<<HourlyFrame(o)>> : o \in SeriesOutputs}
  /\ model_params = <<>>
  /\ threshold = FromInt(DefaultThreshold)
  /\ labels = <<>>
  /\ weekly_summary = <<>>
  /\ plots_keys = <<>>
  /\ response = <<>>
  /\ session = [s \in Sessions |-> <<>>]
  /\ plot_image_cache = <<>>
  /\ next_uuid = 1
  /\ np_random = Unseeded
  /\ threads = [t \in Threads |-> IdleThread]
  /\ history = NoHistory

SpecSeries == InitSeries /\ [][NextLabel]_vars

(***************************************************************************)
(* The ensemble strategy of the batch script: train_model and              *)
(* predict_anomalies of src/unnamed/part_000 on an isolation forest.  The  *)
(* forest is scikit-learn's: what it decides for a sample is not modelled, *)
(* only that fit fixes a label, 1 or -1, for every sample point.           *)
(***************************************************************************)
DefaultContamination == Rat(5, 100)

DefaultRandomState == 42

\* data[["output_kwh"]]: the samples, one tuple of the values of the selected
\* columns per row
Samples(data, columns) ==
  [i \in DOMAIN data.rows |-> [k \in DOMAIN columns |-> data.rows[i][columns[k]]]]

\* the label assignments a forest fitted on samples X may come to
ForestLabels(X) == [Range(X) -> {-1, 1}]

\* IsolationForest(contamination, random_state).fit(X), with the labels the
\* fitted trees assign
IsolationForest_fit(contamination, random_state, X, label) ==
  [contamination |-> contamination, random_state |-> random_state,
   X |-> X, label |-> label]

\* model.predict(X): 1 for an inlier, -1 for an outlier
IsolationForest_predict(model, X) == [i \in DOMAIN X |-> model.label[X[i]]]

\* lines 6-9 of part_000
ensemble_train_model(data, contamination, random_state, label) ==
  IsolationForest_fit(contamination, random_state, Samples(data, <<"output_kwh">>), label)

\* predict_anomalies with the inliers reported
ensemble_predict_anomalies_inliers(model, data) ==
  LET y == IsolationForest_predict(model, Samples(data, <<"output_kwh">>))
  IN  [i \in DOMAIN y |-> y[i] = 1]

\* lines 11-12 of part_000
ensemble_predict_anomalies(model, data) ==
  LET y == IsolationForest_predict(model, Samples(data, <<"output_kwh">>))
  IN  [i \in DOMAIN y |-> y[i] = -1]

\* hourly frames with a covariate: buckets of output 1 or 4 and of air
\* temperature 0 or 9
EnsembleFrame(cells) ==
  [cols |-> {"date", "output_kwh", "AirTemperature"},
   rows |-> [i \in DOMAIN cells |->
               [c \in {"date", "output_kwh", "AirTemperature"} |->
                  IF c = "date" THEN (i - 1) * HourMinutes
                  ELSE IF c = "output_kwh" THEN cells[i][1] ELSE cells[i][2]]]]

EnsembleFrames ==
  {EnsembleFrame(c) :
     c \in SeqsUpTo({<<1, 1>>, <<4, 1>>} \X {<<0, 1>>, <<9, 1>>}, MaxBuckets) \ {<<>>}}

InitEnsemble ==
  /\ pc = "fit"
  /\ request = <<>>
  /\ df = <<>>
  /\ df_hourly \in {<<h>> : h \in EnsembleFrames}
  /\ model_params = <<>>
  /\ threshold = FromInt(DefaultThreshold)
  /\ labels = <<>>
  /\ weekly_summary = <<>>
  /\ plots_keys = <<>>
  /\ response = <<>>
  /\ session = [s \in Sessions |-> <<>>]
  /\ plot_image_cache = <<>>
  /\ next_uuid = 1
  /\ np_random = Unseeded
  /\ threads = [t \in Threads |-> IdleThread]
  /\ history = NoHistory

\* line 31 of part_000: model = train_model(df_hourly)
EnsembleFit ==
  /\ pc = "fit"
  /\ \E label \in ForestLabels(Samples(df_hourly[1], <<"output_kwh">>)) :
       model_params' = <<ensemble_train_model(df_hourly[1], DefaultContamination,
                                              DefaultRandomState, label)>>
  /\ pc' = "label"
  /\ UNCHANGED <<request, df, df_hourly, threshold, labels, weekly_summary,
                 plots_keys, response, session, plot_image_cache, next_uuid>>
  /\ UNCHANGED <<np_random, threads, history>>

\* line 32 of part_000: df_hourly["anomaly"] = predict_anomalies(model, df_hourly)
EnsembleLabel ==
  /\ pc = "label"
  /\ LET ret == ensemble_predict_anomalies(model_params[1], df_hourly[1])
     IN  /\ labels' = <<ret>>
         /\ df_hourly' = <<WithColumn(df_hourly[1], "anomaly", ret)>>
  /\ pc' = "labelled"
  /\ UNCHANGED <<request, df, model_params, threshold, weekly_summary,
                 plots_keys, response, session, plot_image_cache, next_uuid>>
  /\ UNCHANGED <<np_random, threads, history>>

NextEnsemble == EnsembleFit \/ EnsembleLabel

SpecEnsemble == InitEnsemble /\ [][NextEnsemble]_vars

(***************************************************************************)
(* generate_summary on its own: any labelled hourly frame with buckets at  *)
(* 14:00 and 15:00 of the first day and at 14:00 of the days after it      *)
(***************************************************************************)
MaxDays == 7

SummaryHours ==
  [k \in 1..(MaxDays + 1) |->
     IF k <= 2 THEN (13 + k) * HourMinutes
     ELSE (k - 2) * DayMinutes + 14 * HourMinutes]

\* sel[k] tells whether the k-th hour has a bucket and how it is labelled
LabelledFrame(sel) ==
  LET idx == SelectSeq([k \in DOMAIN SummaryHours |-> k], LAMBDA k : sel[k] # "absent")
  IN  [cols |-> {"date", "output_kwh", "anomaly"},
       rows |-> [j \in DOMAIN idx |->
                   [date       |-> SummaryHours[idx[j]],
                    output_kwh |-> IF sel[idx[j]] = "anomaly" THEN <<9, 2>> ELSE <<1, 1>>,
                    anomaly    |-> sel[idx[j]] = "anomaly"]]]

InitSummary ==
  /\ pc = "summary"
  /\ request = <<>>
  /\ df = <<>>
  /\ df_hourly \in {<<LabelledFrame(sel)>> :
                      sel \in [DOMAIN SummaryHours -> {"absent", "normal", "anomaly"}]}
  /\ model_params = <<>>
  /\ threshold = FromInt(DefaultThreshold)
  /\ labels = <<>>
  /\ weekly_summary = <<>>
  /\ plots_keys = <<>>
  /\ response = <<>>
  /\ session = [s \in Sessions |-> <<>>]
  /\ plot_image_cache = <<>>
  /\ next_uuid = 1
  /\ np_random = Unseeded
  /\ threads = [t \in Threads |-> IdleThread]
  /\ history = NoHistory

NextSummary == Summarize

SpecSummary == InitSummary /\ [][NextSummary]_vars

(***************************************************************************)
(* The web application: upload, dashboard and logout requests of a client, *)
(* served by concurrent threads over the shared plot_image_cache and numpy *)
(* generator.  Flask keeps the session in the client's cookie: a request   *)
(* works on the session its cookie carried and the response sets the       *)
(* cookie when the handler modified the session.                           *)
(***************************************************************************)
\* the files uploaded: two files of readings over three hours, of different
\* mean and standard deviation
WebFile(a, b, c) ==
  [cols |-> BaseCols,
   rows |-> <<Row2(7, a), Row2(HourMinutes + 7, b), Row2(2 * HourMinutes + 7, c)>>]

WebFiles == {WebFile(<<1, 1>>, <<1, 1>>, <<4, 1>>), WebFile(<<2, 1>>, <<9, 1>>, <<3, 2>>)}

Handlers == {"upload", "dashboard", "logout"}

\* the variables of one upload followed step by step, not used here
upload_vars ==
  <<pc, request, df, df_hourly, model_params, threshold, labels, weekly_summary,
    plots_keys, response>>

\* every thread's frame sharing the one variable
AssignLocal_global(frames, t, name, value) ==
  [u \in DOMAIN frames |-> [frames[u] EXCEPT ![name] = value]]

\* name = value in the frame of the call thread t runs
AssignLocal(frames, t, name, value) == [frames EXCEPT ![t][name] = value]

\* the entry stays in the cache
CachePop_kept(cache, id) == cache

\* the whole cache is cleared
CachePop_all(cache, id) == <<>>

\* plot_image_cache.pop(plot_id), the id being there
CachePop(cache, id) == [i \in DOMAIN cache \ {id} |-> cache[i]]

PlotIds(keys) == {keys.plot_ids[n] : n \in DOMAIN keys.plot_ids}

\* what an upload that went through has produced: the labelled buckets
\* without the columns simulated for the plots, the statistics, the anomaly
\* table and the narrative
AnalysisResult(th) ==
  LET h    == th.df_hourly[1]
      cols == h.cols \ (Range(WeatherCols) \ th.file[1].cols)
  IN  [buckets   |-> [i \in DOMAIN h.rows |-> [c \in cols |-> h.rows[i][c]]],
       stats     |-> th.sess[1].stats,
       anomalies |-> th.sess[1].anomalies,
       narrative |-> th.sess[1].summary]

\* a request arrives and is given a thread (the first idle one) with the
\* session of the client's cookie
Receive(t, c, h, f) ==
  /\ threads[t].handler = "idle"
  /\ \A u \in Threads : u < t => threads[u].handler # "idle"
  /\ history.started < MaxRequests
  /\ threads' = [threads EXCEPT ![t] =
                   [IdleThread EXCEPT !.handler = h,
                                      !.pc = "begin",
                                      !.client = c,
                                      !.serial = history.started + 1,
                                      !.sess = session[c],
                                      !.file = IF h = "upload" THEN <<f>> ELSE <<>>]]
  /\ history' = [history EXCEPT !.started = @ + 1]
  /\ UNCHANGED <<upload_vars, session, plot_image_cache, next_uuid, np_random>>

\* the response reaches the client: the cookie is set when the session was
\* modified.  history.consumed takes the plot ids of the upload whose result
\* a dashboard response displays.
Respond(t) ==
  /\ threads[t].pc = "respond"
  /\ session' = IF threads[t].modified
                THEN [session EXCEPT ![threads[t].client] = threads[t].sess]
                ELSE session
  /\ history' = IF threads[t].handler = "dashboard" /\ threads[t].response[1].body = "dashboard"
                THEN [history EXCEPT !.consumed = @ \cup PlotIds(threads[t].keys[1])]
                ELSE history
  /\ threads' = [threads EXCEPT ![t] = IdleThread]
  /\ UNCHANGED <<upload_vars, plot_image_cache, next_uuid, np_random>>

Answer(th, status, body) ==
  [th EXCEPT !.pc = "respond", !.response = <<[status |-> status, body |-> body]>>]

\* upload, lines 176-198: the file is read, validated, cleaned and
\* resampled, and the generator is seeded
UploadParse(t) ==
  /\ threads[t].handler = "upload" /\ threads[t].pc = "begin"
  /\ LET th == threads[t]
         f  == th.file[1]
         ok == f.cols # {} /\ MissingColumns(f.cols) = {}
     IN  /\ threads' = [threads EXCEPT ![t] =
               IF f.cols = {} THEN Answer(th, 500, "Error processing file")
               ELSE IF MissingColumns(f.cols) # {}
                    THEN Answer(th, 400, "Missing required columns in CSV")
               ELSE [th EXCEPT !.df_hourly = <<ResampleHourly(CleanRows(f))>>,
                               !.loop = 1,
                               !.pc = "simulate"]]
         /\ np_random' = IF ok THEN np_random_seed(np_random) ELSE np_random
  /\ UNCHANGED <<upload_vars, session, plot_image_cache, next_uuid, history>>

\* upload, lines 199-204: the next weather column
UploadSimulate(t) ==
  /\ threads[t].handler = "upload" /\ threads[t].pc = "simulate"
  /\ LET th == threads[t]
         w  == SimulateColumn(th.df_hourly[1], WeatherCols[th.loop], np_random, th.drawn)
     IN  /\ np_random' = Followed(w.state)
         /\ threads' = [threads EXCEPT ![t] =
              [th EXCEPT !.df_hourly = <<w.df>>,
                         !.drawn = w.own,
                         !.loop = IF th.loop = Len(WeatherCols) THEN 0 ELSE th.loop + 1,
                         !.pc = IF th.loop = Len(WeatherCols) THEN "train" ELSE "simulate"]]
  /\ UNCHANGED <<upload_vars, session, plot_image_cache, next_uuid, history>>

\* upload, line 207
UploadTrain(t) ==
  /\ threads[t].handler = "upload" /\ threads[t].pc = "train"
  /\ LET fitted == AssignLocal(threads, t, "model_params",
                               <<train_model(threads[t].df_hourly[1])>>)
     IN  threads' = [u \in Threads |->
           IF u = t THEN [fitted[u] EXCEPT !.pc = "predict"]
           ELSE [fitted[u] EXCEPT !.raced = @ \/ (threads[u].handler = "upload"
                                                  /\ threads[u].pc = "predict")]]
  /\ UNCHANGED <<upload_vars, session, plot_image_cache, next_uuid, np_random, history>>

\* upload, lines 208-213: the buckets are labelled and summarized
UploadPredict(t) ==
  /\ threads[t].handler = "upload" /\ threads[t].pc = "predict"
  /\ LET th == threads[t]
         h  == LabelHourly(th.model_params[1], th.df_hourly[1])
     IN  threads' = [threads EXCEPT ![t] =
           [th EXCEPT !.df_hourly = <<h>>,
                      !.labels = <<predict_anomalies(th.model_params[1], th.df_hourly[1],
                                                     FromInt(DefaultThreshold)).ret>>,
                      !.weekly_summary = <<generate_summary(h)>>,
                      !.pc = "plots"]]
  /\ UNCHANGED <<upload_vars, session, plot_image_cache, next_uuid, np_random, history>>

\* str(uuid.uuid4()) in the k-th plot of a request: an id no other call
\* returns, here the k-th of the ids set aside for the request
uuid4(th, k) == (th.serial - 1) * Len(PlotNames) + k

\* lines 219-249 as far as the k-th plot: each plot is cached under a fresh
\* uuid
RECURSIVE CachePlots(_, _, _)
CachePlots(cache, th, k) ==
  IF k = 0 THEN cache
  ELSE CachePut(CachePlots(cache, th, k - 1), uuid4(th, k), PlotNames[k])

\* the plots an upload gets to render: none or two when a rendering raises,
\* else all
PlotsRendered == {0, 2, Len(PlotNames)}

\* upload, lines 215-281: k plots are rendered and cached.  When all are
\* (lines 251-276) the keys go into the session and the client is redirected
\* to the dashboard; when the rendering after the k-th raises (lines
\* 278-281) the handler answers 500.  No other request knows the ids before
\* the response, so the plots are cached in one step.
UploadPlots(t, k) ==
  /\ threads[t].handler = "upload" /\ threads[t].pc = "plots"
  /\ LET th   == [threads[t] EXCEPT !.plots_keys = [n \in 1..k |-> uuid4(threads[t], n)],
                                     !.raced = FALSE]
         done == [Answer(th, 302, "dashboard") EXCEPT
                    !.sess = <<ProcessedDataKeys(th.plots_keys, th.weekly_summary[1],
                                                 th.df_hourly[1])>>,
                    !.modified = TRUE]
     IN  /\ plot_image_cache' = CachePlots(plot_image_cache, th, k)
         /\ IF k = Len(PlotNames)
            THEN /\ threads' = [threads EXCEPT ![t] = done]
                 /\ history' = [history EXCEPT
                      !.analyses = @ \cup {<<th.file[1], AnalysisResult(done)>>}]
            ELSE /\ threads' = [threads EXCEPT ![t] = Answer(th, 500, "Error processing file")]
                 /\ history' = history
  /\ UNCHANGED <<upload_vars, session, next_uuid, np_random>>

\* dashboard, lines 290-303: with keys in the session their plots are
\* fetched, without them mock data is drawn
DashboardGet(t) ==
  /\ threads[t].handler = "dashboard" /\ threads[t].pc = "begin"
  /\ threads' = [threads EXCEPT ![t] =
       IF @.sess # <<>>
       THEN [@ EXCEPT !.keys = threads[t].sess, !.loop = 1, !.pc = "check"]
       ELSE [@ EXCEPT !.loop = 1, !.pc = "mock"]]
  /\ UNCHANGED <<upload_vars, session, plot_image_cache, next_uuid, np_random, history>>

\* dashboard, lines 324-328: the mock frame takes four draws of 24 values
DashboardMock(t) ==
  /\ threads[t].handler = "dashboard" /\ threads[t].pc = "mock"
  /\ np_random' = Followed(Advance(np_random, MockPeriods))
  /\ threads' = [threads EXCEPT ![t] =
       IF @.loop = Len(PlotNames) THEN Answer(@, 200, "mock dashboard")
       ELSE [@ EXCEPT !.loop = @ + 1]]
  /\ UNCHANGED <<upload_vars, session, plot_image_cache, next_uuid, history>>

\* the plot id the loop of thread record th stands at
LoopId(th) == th.keys[1].plot_ids[PlotNames[th.loop]]

\* the loop moves to the next plot; after the last the handler goes on to
\* its end, which leaves the thread as done
LoopNext(th, done) ==
  IF th.loop = Len(PlotNames) THEN done ELSE [th EXCEPT !.loop = @ + 1, !.pc = "check"]

\* dashboard, lines 310-357: the result is displayed and the keys leave the
\* session
Rendered(th) ==
  [Answer(th, 200, "dashboard") EXCEPT !.sess = <<>>, !.modified = TRUE]

\* dashboard, line 307: if plot_id in plot_image_cache
DashboardCheck(t) ==
  /\ threads[t].handler = "dashboard" /\ threads[t].pc = "check"
  /\ threads' = [threads EXCEPT ![t] =
       IF LoopId(@) \in DOMAIN plot_image_cache
       THEN [@ EXCEPT !.pc = "pop"]
       ELSE LoopNext(@, Rendered(@))]
  /\ UNCHANGED <<upload_vars, session, plot_image_cache, next_uuid, np_random, history>>

\* dashboard, line 308: plot_image_cache.pop(plot_id); a KeyError when the
\* entry has gone since the check, which Flask answers with 500
DashboardPop(t) ==
  /\ threads[t].handler = "dashboard" /\ threads[t].pc = "pop"
  /\ LET th  == threads[t]
         got == [th EXCEPT !.retrieved = @ \cup {PlotNames[th.loop]}]
     IN  IF LoopId(th) \in DOMAIN plot_image_cache
         THEN /\ plot_image_cache' = CachePop(plot_image_cache, LoopId(th))
              /\ threads' = [threads EXCEPT ![t] = LoopNext(got, Rendered(got))]
         ELSE /\ plot_image_cache' = plot_image_cache
              /\ threads' = [threads EXCEPT ![t] = Answer(th, 500, "KeyError")]
  /\ UNCHANGED <<upload_vars, session, next_uuid, np_random, history>>

\* logout, line 362: if 'processed_data_keys' in session
LogoutCheck(t) ==
  /\ threads[t].handler = "logout" /\ threads[t].pc = "begin"
  /\ threads' = [threads EXCEPT ![t] =
       IF @.sess # <<>>
       THEN [@ EXCEPT !.keys = threads[t].sess, !.loop = 1, !.pc = "check"]
       ELSE Answer(@, 302, "login")]
  /\ UNCHANGED <<upload_vars, session, plot_image_cache, next_uuid, np_random, history>>

\* logout, lines 363-366: plot_image_cache.pop(plot_id, None); after the
\* last id the key leaves the session and the client is sent to the login
LogoutEvict(t) ==
  /\ threads[t].handler = "logout" /\ threads[t].pc = "check"
  /\ plot_image_cache' =
       IF LoopId(threads[t]) \in DOMAIN plot_image_cache
       THEN CachePop(plot_image_cache, LoopId(threads[t]))
       ELSE plot_image_cache
  /\ threads' = [threads EXCEPT ![t] =
       LoopNext(@, [Answer(@, 302, "login") EXCEPT !.sess = <<>>, !.modified = TRUE])]
  /\ UNCHANGED <<upload_vars, session, next_uuid, np_random, history>>

NextWeb ==
  \/ \E t \in Threads, c \in Sessions, h \in Handlers, f \in WebFiles : Receive(t, c, h, f)
  \/ \E t \in Threads : Respond(t)
  \/ \E t \in Threads : UploadParse(t)
  \/ \E t \in Threads : UploadSimulate(t)
  \/ \E t \in Threads : UploadTrain(t)
  \/ \E t \in Threads : UploadPredict(t)
  \/ \E t \in Threads, k \in PlotsRendered : UploadPlots(t, k)
  \/ \E t \in Threads : DashboardGet(t)
  \/ \E t \in Threads : DashboardMock(t)
  \/ \E t \in Threads : DashboardCheck(t)
  \/ \E t \in Threads : DashboardPop(t)
  \/ \E t \in Threads : LogoutCheck(t)
  \/ \E t \in Threads : LogoutEvict(t)

SpecWeb == Init /\ [][NextWeb]_vars

(***************************************************************************)
(* dashboard and logout requests of two clients after their uploads: the   *)
(* first client's session holds the keys of a finished upload, the second  *)
(* client's session those of another upload or none, and the cache the     *)
(* plots of these uploads                                                  *)
(***************************************************************************)
Clients == {"s1", "s2"}

\* the requests a client sends here
PageHandlers == {"dashboard", "logout"}

\* the files uploaded before
FirstFile == WebFile(<<1, 1>>, <<1, 1>>, <<4, 1>>)

SecondFile == WebFile(<<2, 1>>, <<9, 1>>, <<3, 2>>)

\* what an upload of file f, the serial-th request, stores in the session
\* (lines 176-274)
Stored(f, serial) ==
  LET w == SimulateWeatherFrom(ResampleHourly(CleanRows(f)), Unseeded).df
      h == LabelHourly(train_model(w), w)
  IN  ProcessedDataKeys([k \in DOMAIN PlotNames |-> uuid4([serial |-> serial], k)],
                        generate_summary(h), h)

\* the cache after the uploads with the serials of set done
RECURSIVE CacheAfter(_)
CacheAfter(done) ==
  IF done = {} THEN <<>>
  ELSE LET n == CHOOSE x \in done : TRUE
       IN  CachePlots(CacheAfter(done \ {n}), [serial |-> n], Len(PlotNames))

InitDash ==
  /\ pc = "idle"
  /\ request = <<>>
  /\ df = <<>>
  /\ df_hourly = <<>>
  /\ model_params = <<>>
  /\ threshold = FromInt(DefaultThreshold)
  /\ labels = <<>>
  /\ weekly_summary = <<>>
  /\ plots_keys = <<>>
  /\ response = <<>>
  /\ \E second \in BOOLEAN :
       /\ session = [c \in Clients |->
                       IF c = "s1" THEN <<Stored(FirstFile, 0)>>
                       ELSE IF second THEN <<Stored(SecondFile, -1)>>
                       ELSE <<>>]
       /\ plot_image_cache = CacheAfter(IF second THEN {0, -1} ELSE {0})
  /\ next_uuid = 1
  /\ np_random = Followed(SimulateWeatherFrom(ResampleHourly(CleanRows(FirstFile)), Unseeded).state)
  /\ threads = [t \in Threads |-> IdleThread]
  /\ history = NoHistory

NextDash ==
  \/ \E t \in Threads, c \in Clients, h \in PageHandlers : Receive(t, c, h, EmptyFile)
  \/ \E t \in Threads : Respond(t)
  \/ \E t \in Threads : DashboardGet(t)
  \/ \E t \in Threads : DashboardMock(t)
  \/ \E t \in Threads : DashboardCheck(t)
  \/ \E t \in Threads : DashboardPop(t)
  \/ \E t \in Threads : LogoutCheck(t)
  \/ \E t \in Threads : LogoutEvict(t)

SpecDash == InitDash /\ [][NextDash]_vars

(***************************************************************************)
(* Claims                                                                  *)
(***************************************************************************)
Outputs(h) == Column(h, "output_kwh")

Squares(s) == [i \in DOMAIN s |-> RatMul(s[i], s[i])]

\* n * sum(x^2) - sum(x)^2 = n * (n - 1) * (sample variance)
VarNum(s) ==
  RatSub(RatMul(FromInt(Len(s)), SeqSum(Squares(s))), RatMul(SeqSum(s), SeqSum(s)))

\* n * x_i - sum(x) = n * (x_i - mean)
Dev(s, i) == RatSub(RatMul(FromInt(Len(s)), s[i]), SeqSum(s))

\* the signed z-score of s[i], (s[i] - mean) / std with the sample standard
\* deviation, from the sums: its sign and its square; NaN where std is 0 or
\* undefined
ZScoreOf(s, i) ==
  LET v == VarNum(s)
      d == Dev(s, i)
  IN  IF Len(s) <= 1 \/ RatSgn(v) = 0 THEN SurdNaN
      ELSE <<RatSgn(d),
             RatDiv(RatMul(RatMul(d, d), FromInt(Len(s) - 1)),
                    RatMul(FromInt(Len(s)), v))>>

\* the z-scores of all of s
ZScores(s) ==
  LET n   == Len(s)
      sum == SeqSum(s)
      v   == RatSub(RatMul(FromInt(n), SeqSum(Squares(s))), RatMul(sum, sum))
  IN  [i \in DOMAIN s |->
         LET d == RatSub(RatMul(FromInt(n), s[i]), sum)
         IN  IF n <= 1 \/ RatSgn(v) = 0 THEN SurdNaN
             ELSE <<RatSgn(d),
                    RatDiv(RatMul(RatMul(d, d), FromInt(n - 1)), RatMul(FromInt(n), v))>>]

\* |z| > t
Exceeds(z, t) == ~SurdIsNaN(z) /\ (RatSgn(t) < 0 \/ RatLess(RatMul(t, t), z[2]))

\* C1: after train_model and predict_anomalies, the model's mean and std are
\* those of all buckets' outputs, every score written is the signed z-score
\* (output - mean) / std of its bucket, and a bucket is flagged exactly when
\* |score| > threshold.
C1_ZScoreDecision ==
  pc = "labelled" =>
    LET h == df_hourly[1]
        s == Outputs(h)
        m == model_params[1]
    IN  /\ Len(s) >= 1 => RatMul(m.mean, FromInt(Len(s))) = SeqSum(s)
        /\ Len(s) >= 2 =>
             RatMul(m.std[2], FromInt(Len(s) * (Len(s) - 1))) = VarNum(s)
        /\ \A i \in DOMAIN s :
             /\ "z_score" \in h.cols => h.rows[i]["z_score"] = ZScoreOf(s, i)
             /\ labels[1][i] = Exceeds(ZScoreOf(s, i), threshold)

C1_Witness ==
  /\ pc = "labelled"
  /\ threshold = <<1, 1>>
  /\ Len(labels[1]) = MaxBuckets
  /\ \E i, j, k \in DOMAIN labels[1] :
       /\ labels[1][i] /\ ~labels[1][j] /\ ~labels[1][k]
       /\ df_hourly[1].rows[j]["z_score"][1] = -1
       /\ df_hourly[1].rows[k]["z_score"][1] = 1

AllSame(s) == \A i, j \in DOMAIN s : s[i] = s[j]

C7_LabelCount ==
  pc = "labelled" =>
    LET h == df_hourly[1]
    IN  /\ Len(labels[1]) = Len(h.rows)
        /\ \A i \in DOMAIN h.rows :
             /\ h.rows[i]["date"] = (i - 1) * HourMinutes
             /\ labels[1][i] \in BOOLEAN
             /\ IF SurdIsZero(model_params[1].std)
                THEN labels[1][i] = FALSE
                ELSE labels[1][i] = Exceeds(h.rows[i]["z_score"], threshold)

C7_Witness ==
  /\ pc = "labelled"
  /\ ~SurdIsZero(model_params[1].std)
  /\ Len(labels[1]) = 3
  /\ labels[1][1] /\ ~labels[1][2] /\ labels[1][3]

\* the file of the request being served
File == request[1].file

HasRequired == {"Timestamp", "SolarGeneration"} \subseteq File.cols

\* a reading is retained when its output is a number and its timestamp a date
IsRetained(r) == ~IsNaN(r["SolarGeneration"]) /\ r["Timestamp"] >= 0

Retained(f) == SelectSeq(f.rows, IsRetained)

\* the retained readings of f with a timestamp in [h, h + 1h)
InHour(f, h) ==
  SelectSeq(Retained(f),
            LAMBDA r : h <= r["Timestamp"] /\ r["Timestamp"] < h + HourMinutes)

Hourly == df_hourly[1].rows

\* C3: every hourly bucket starts on the hour and its output is the
\* arithmetic mean of the outputs of the retained readings of the uploaded
\* file with a timestamp in [hour_start, hour_start + 1h), in whatever order
\* the file lists them.
C3_Aggregation ==
  (request # <<>> /\ df_hourly # <<>>) =>
    \A i \in DOMAIN Hourly :
      LET h  == Hourly[i]["date"]
          rs == InHour(File, h)
      IN  /\ h % HourMinutes = 0
          /\ Hourly[i]["output_kwh"] =
               RatDiv(SeqSum([k \in DOMAIN rs |-> rs[k]["SolarGeneration"]]),
                      FromInt(Len(rs)))

C3_Witness ==
  /\ request # <<>> /\ df_hourly # <<>>
  /\ File.cols = {"Timestamp", "SolarGeneration"}
  /\ Len(File.rows) = 3
  /\ File.rows[1]["Timestamp"] > File.rows[3]["Timestamp"]
  /\ File.rows[3]["Timestamp"] > File.rows[2]["Timestamp"]
  /\ File.rows[2]["Timestamp"] >= 0
  /\ Len(Hourly) = 2
  /\ Hourly[1]["output_kwh"] = <<1, 1>>
  /\ Hourly[2]["output_kwh"] = <<4, 1>>

\* C4: every hourly bucket is the hour of at least one retained reading: an
\* hour without retained readings, between the first and the last reading
\* or anywhere else, has no bucket.
C4_NoEmptyHour ==
  (request # <<>> /\ df_hourly # <<>>) =>
    LET hours == {Hourly[i]["date"] : i \in DOMAIN Hourly}
        lo    == CHOOSE h \in hours : \A g \in hours : h <= g
        hi    == CHOOSE h \in hours : \A g \in hours : h >= g
    IN  /\ \A h \in hours : \E k \in DOMAIN File.rows :
             /\ IsRetained(File.rows[k])
             /\ File.rows[k]["Timestamp"] \div HourMinutes = h \div HourMinutes
        /\ hours # {} =>
             \A n \in (lo \div HourMinutes)..(hi \div HourMinutes) :
               (\A k \in DOMAIN File.rows :
                  IsRetained(File.rows[k]) =>
                    File.rows[k]["Timestamp"] \div HourMinutes # n)
                 => n * HourMinutes \notin hours

C4_Witness ==
  /\ request # <<>> /\ df_hourly # <<>>
  /\ Len(File.rows) = 3
  /\ Len(Hourly) = 2
  /\ Hourly[1]["date"] = 0
  /\ Hourly[2]["date"] = 2 * HourMinutes
  /\ \E k \in DOMAIN File.rows :
       File.rows[k]["Timestamp"] = 45 /\ IsNaN(File.rows[k]["SolarGeneration"])

\* C5: the hours of the hourly frame are strictly increasing, whatever the
\* order of the readings in the file.
C5_Ordering ==
  (request # <<>> /\ df_hourly # <<>>) =>
    \A i, j \in DOMAIN Hourly : i < j => Hourly[i]["date"] < Hourly[j]["date"]

C5_Witness ==
  /\ request # <<>> /\ df_hourly # <<>>
  /\ Len(File.rows) = 3
  /\ File.rows[1]["Timestamp"] = 130
  /\ File.rows[2]["Timestamp"] = 45
  /\ File.rows[3]["Timestamp"] = 0
  /\ \A k \in DOMAIN File.rows : IsRetained(File.rows[k])
  /\ Len(Hourly) = 2

\* how many rows of s are the reading (t, o)
Count(s, tc, oc, t, o) == Len(SelectSeq(s, LAMBDA r : r[tc] = t /\ r[oc] = o))

C8_EmptyInputFatal ==
  (request # <<>> /\ df_hourly # <<>> /\ Len(Hourly) = 0) =>
    /\ model_params = <<>>
    /\ labels = <<>>
    /\ weekly_summary = <<>>
    /\ session[request[1].sid] = <<>>
    /\ pc = "done" => response[1].status = 400

\* C9: a file that lacks the Timestamp or the SolarGeneration column is
\* answered with an error right after validation (400 naming the missing
\* columns; 500 when the file has no column at all and cannot be parsed):
\* nothing is cleaned, aggregated, fitted or plotted for it, and the session
\* and the plot cache stay as they were when the request arrived.
C9_MissingColumns ==
  (request # <<>> /\ ~HasRequired) =>
    /\ pc \in {"read", "validate", "done"}
    /\ pc = "done" =>
         response = IF File.cols = {}
                    THEN <<[status |-> 500, body |-> "Error processing file"]>>
                    ELSE <<[status |-> 400, body |-> "Missing required columns in CSV"]>>
    /\ df = <<>> /\ df_hourly = <<>> /\ model_params = <<>> /\ labels = <<>>
    /\ weekly_summary = <<>> /\ plots_keys = <<>>
    /\ session = [s \in Sessions |-> <<>>]
    /\ plot_image_cache = <<>>
    /\ next_uuid = 1

C9_Witness ==
  /\ request # <<>>
  /\ File.cols = {"Timestamp"}
  /\ Len(File.rows) = 1
  /\ pc = "done"
  /\ response[1].status = 400

\* C10: the statistics stored with a successful upload are the maximum, the
\* minimum, the mean and the sum of the outputs of all hourly buckets,
\* flagged or not, and data_points is the number of buckets.
C10_StatsOverAll ==
  (request # <<>> /\ pc = "done" /\ response[1].status = 302) =>
    LET st  == session[request[1].sid][1].stats
        out == Outputs(df_hourly[1])
        n   == Len(out)
    IN  /\ st.data_points = n
        /\ st.total_output = SeqSum(out)
        /\ n >= 1 =>
             /\ RatMul(st.avg_output, FromInt(n)) = SeqSum(out)
             /\ \E i \in DOMAIN out : out[i] = st.max_output
             /\ \E i \in DOMAIN out : out[i] = st.min_output
             /\ \A i \in DOMAIN out :
                  ~RatLess(st.max_output, out[i]) /\ ~RatLess(out[i], st.min_output)

C10_Witness ==
  /\ request # <<>> /\ pc = "done" /\ response[1].status = 302
  /\ \E i \in DOMAIN Hourly :
       /\ Hourly[i]["anomaly"]
       /\ session[request[1].sid][1].stats.max_output = Hourly[i]["output_kwh"]
  /\ session[request[1].sid][1].stats.data_points = LongHours

\* the buckets of h flagged anomalous
Flagged(h) == SelectSeq(h.rows, LAMBDA r : r["anomaly"])

DayOf(t) == t \div DayMinutes

\* s without the repetitions of its elements, first occurrences kept
RECURSIVE Dedup(_)
Dedup(s) ==
  IF s = <<>> THEN <<>>
  ELSE LET d == Dedup(SubSeq(s, 1, Len(s) - 1))
       IN  IF \E i \in DOMAIN d : d[i] = s[Len(s)] THEN d ELSE Append(d, s[Len(s)])

\* the calendar days with a flagged bucket, each once, in bucket order
AnomalousDays(h) == Dedup([i \in DOMAIN Flagged(h) |-> DayOf(Flagged(h)[i]["date"])])

FirstN(s, n) == SubSeq(s, 1, IF Len(s) > n THEN n ELSE Len(s))

Display == weekly_summary[1].anomalies_display

\* C11: the entries of the narrative are the calendar dates (a day, no hour)
\* of the flagged buckets, each day once, in ascending order, the first
\* MaxDatesShown of them at most.
C11_DatesListed ==
  weekly_summary # <<>> =>
    LET days == FirstN(AnomalousDays(df_hourly[1]), MaxDatesShown)
    IN  /\ Display.dates = [i \in DOMAIN days |-> <<days[i]>>]
        /\ \A i, j \in DOMAIN Display.dates :
             i < j => Display.dates[i][1] < Display.dates[j][1]

\* C12: with n the number of distinct calendar dates having a flagged
\* bucket: when n > MaxDatesShown the narrative lists exactly MaxDatesShown
\* entries and signals n - MaxDatesShown more; when n <= MaxDatesShown it
\* carries no truncation marker.
C12_Truncation ==
  weekly_summary # <<>> =>
    LET n == Len(AnomalousDays(df_hourly[1]))
    IN  IF n > MaxDatesShown
        THEN Len(Display.dates) = MaxDatesShown /\ Display.more = n - MaxDatesShown
        ELSE Display.more = 0

HourMean(f, h) ==
  LET rs == InHour(f, h)
  IN  RatDiv(SeqSum([k \in DOMAIN rs |-> rs[k]["SolarGeneration"]]), FromInt(Len(rs)))

\* C14: for the one-day file of 15-minute readings of 150 with a reading of
\* 900 at 14:07, labelled at the default threshold 3.0: there are 24 buckets
\* and exactly the 14:00 bucket is flagged; the narrative lists an entry with
\* the date of that hour and does not read "None detected."; the stored
\* stats.max_output is the largest hourly mean, the 14:00 bucket's.
C14_Scenario ==
  (request # <<>> /\ File = ScenarioFile) =>
    /\ labels # <<>> =>
         /\ threshold = FromInt(DefaultThreshold)
         /\ Len(Hourly) = 24
         /\ \A i \in DOMAIN Hourly :
              /\ Hourly[i]["date"] = (i - 1) * HourMinutes
              /\ Hourly[i]["anomaly"] = (Hourly[i]["date"] = 14 * HourMinutes)
              /\ labels[1][i] = Hourly[i]["anomaly"]
    /\ weekly_summary # <<>> =>
         /\ ~Display.none
         /\ \E i \in DOMAIN Display.dates :
              Display.dates[i][1] = DayOf(14 * HourMinutes)
    /\ (pc = "done" /\ response[1].status = 302) =>
         LET mx == session[request[1].sid][1].stats.max_output
         IN  /\ mx = HourMean(File, 14 * HourMinutes)
             /\ \A n \in 0..23 : ~RatLess(mx, HourMean(File, n * HourMinutes))

C14_Witness ==
  /\ request # <<>> /\ File = ScenarioFile
  /\ pc = "done" /\ response[1].status = 302
  /\ Hourly[15]["anomaly"]
  /\ Hourly[15]["output_kwh"] = <<300, 1>>
  /\ session[request[1].sid][1].stats.max_output = <<300, 1>>
  /\ Display.dates = <<Strftime(14 * HourMinutes)>>

\* align, fit, label and summarize on file f by an upload no other request
\* runs along with: the labelled buckets without the columns simulated for
\* the plots, the statistics, the anomaly table and the narrative
AnalysisAlone(f) ==
  LET w    == SimulateWeather(ResampleHourly(CleanRows(f)))
      h    == LabelHourly(train_model(w), w)
      cols == h.cols \ (Range(WeatherCols) \ f.cols)
  IN  [buckets   |-> [i \in DOMAIN h.rows |-> [c \in cols |-> h.rows[i][c]]],
       stats     |-> Stats(h),
       anomalies |-> FormattedAnomalies(h),
       narrative |-> generate_summary(h)]

\* the frame of upload record th holds a simulated value drawn at another
\* place of the generator's sequence than an upload running alone draws it
RunDisturbed(th) ==
  /\ th.df_hourly # <<>>
  /\ \E i \in DOMAIN th.df_hourly[1].rows, c \in Range(WeatherCols) \cap th.df_hourly[1].cols :
       th.df_hourly[1].rows[i][c] = Perturbed

\* C15: the labelled buckets, statistics and narrative an upload produces
\* for a file are those of an upload of that file running alone, whatever
\* requests ran before it or run along with it; so two uploads of one file
\* produce the same.  (history.analyses is empty at first; the formula is on
\* every result that enters it.)
C15_Determinism ==
  [][history.analyses' # history.analyses =>
       \A a \in history.analyses' \ history.analyses : a[2] = AnalysisAlone(a[1])]_vars

\* two uploads of one file served together, both through, one of them with
\* simulated values the other upload's draws have shifted
C15_Witness ==
  /\ threads[1].file = threads[2].file
  /\ \A t \in Threads :
       /\ threads[t].handler = "upload"
       /\ threads[t].pc = "respond"
       /\ threads[t].response[1].status = 302
  /\ \E t \in Threads : RunDisturbed(threads[t])
  /\ history.analyses # {}

\* C16: no step hands back a changed table: labelling leaves the hourly
\* frame it was given with the same columns and values, and summarising
\* leaves the labelled frame as it was.
C16_NoMutation ==
  [][(pc \in {"label", "summary"}) => (df_hourly' = df_hourly)]_vars

\* the retained readings of f in the hour starting at h whose output is not
\* negative
NonNegInHour(f, h) ==
  SelectSeq(InHour(f, h), LAMBDA r : ~RatLess(r["SolarGeneration"], <<0, 1>>))

\* C17: a reading with a negative output is dropped like a null one: no
\* cleaned row has a negative output, and every hourly bucket is the mean of
\* the retained readings of its hour whose output is not negative (none is
\* counted as zero).
C17_NegativeDropped ==
  /\ (request # <<>> /\ df # <<>>) =>
       \A i \in DOMAIN df[1].rows : ~RatLess(df[1].rows[i]["output_kwh"], <<0, 1>>)
  /\ (request # <<>> /\ df_hourly # <<>>) =>
       \A i \in DOMAIN Hourly :
         LET rs == NonNegInHour(File, Hourly[i]["date"])
         IN  /\ rs # <<>>
             /\ Hourly[i]["output_kwh"] =
                  RatDiv(SeqSum([k \in DOMAIN rs |-> rs[k]["SolarGeneration"]]),
                         FromInt(Len(rs)))

\* whether (sign * x - mean)^2 > t^2 * std^2, i.e. |(sign * x - mean) / std| > t,
\* for a std that is a positive number
DecisionOn(sign, x, m, t) ==
  LET dev == RatSub(RatMul(FromInt(sign), x), m.mean)
  IN  RatSgn(t) < 0 \/ RatLess(RatMul(RatMul(t, t), m.std[2]), RatMul(dev, dev))

\* the standard deviation is a number other than 0
StdUsable(m) == ~SurdIsNaN(m.std) /\ ~SurdIsZero(m.std)

\* C18 as stated: a bucket is flagged exactly when
\* |(-output - mean) / std| > threshold.
C18_NegatedOutput ==
  (pc = "labelled" /\ StdUsable(model_params[1])) =>
    \A i \in DOMAIN labels[1] :
      labels[1][i] =
        DecisionOn(-1, df_hourly[1].rows[i]["output_kwh"], model_params[1], threshold)

\* C18 amended: mean and std being those of the hourly outputs, a bucket is
\* flagged exactly when |(output - mean) / std| > threshold (never when std
\* is 0 or undefined); the threshold is 3.0 unless the caller gives one.
C18_Decision ==
  pc = "labelled" =>
    LET m == model_params[1]
        s == Outputs(df_hourly[1])
    IN  /\ Len(s) >= 1 => RatMul(m.mean, FromInt(Len(s))) = SeqSum(s)
        /\ StdUsable(m) =>
             RatMul(m.std[2], FromInt(Len(s) * (Len(s) - 1))) = VarNum(s)
        /\ \A i \in DOMAIN labels[1] :
             labels[1][i] = (StdUsable(m) /\ DecisionOn(1, s[i], m, threshold))

C18_Witness ==
  /\ pc = "labelled"
  /\ threshold = FromInt(DefaultThreshold)
  /\ StdUsable(model_params[1])
  /\ \E i \in DOMAIN labels[1] :
       /\ ~labels[1][i]
       /\ DecisionOn(-1, df_hourly[1].rows[i]["output_kwh"], model_params[1], threshold)

\* C19: once a dashboard response has displayed the result of an upload,
\* none of that upload's plot ids is in plot_image_cache and no session
\* holds processed_data_keys with them.
C19_Invalidated ==
  \A id \in history.consumed :
    /\ id \notin DOMAIN plot_image_cache
    /\ \A c \in Sessions : session[c] # <<>> => id \notin PlotIds(session[c][1])

\* an upload and the dashboard request after it, all answered: the four
\* plots the upload cached are gone
C19_Witness ==
  /\ history.started = 2
  /\ history.analyses # {}
  /\ Cardinality(history.consumed) = Len(PlotNames)
  /\ \A t \in Threads : threads[t] = IdleThread

\* C20: an upload, whatever another upload does along with it, labels its
\* buckets with the mean and std of its own hourly outputs: while it has
\* labels, its model parameters are those fitted on its own buckets, its
\* scores are its buckets' z-scores under them and a bucket is flagged
\* exactly when |score| > 3.
C20_OwnModel ==
  \A t \in Threads :
    (threads[t].handler = "upload" /\ threads[t].labels # <<>>) =>
      LET h == threads[t].df_hourly[1]
          s == Outputs(h)
          m == threads[t].model_params[1]
          z == ZScores(s)
      IN  /\ Len(s) >= 1 => RatMul(m.mean, FromInt(Len(s))) = SeqSum(s)
          /\ Len(s) >= 2 =>
               RatMul(m.std[2], FromInt(Len(s) * (Len(s) - 1))) = VarNum(s)
          /\ \A i \in DOMAIN s :
               /\ h.rows[i]["z_score"] = z[i]
               /\ threads[t].labels[1][i] = Exceeds(z[i], FromInt(DefaultThreshold))

\* two uploads of different files, each labelled, the one having fitted
\* while the other stood between its fitting and its labelling
C20_Witness ==
  /\ \A t \in Threads : threads[t].handler = "upload" /\ threads[t].labels # <<>>
  /\ threads[1].file # threads[2].file
  /\ threads[1].model_params # threads[2].model_params
  /\ \E t \in Threads : threads[t].raced

\* ---------------------------------------------------------------------
\* C24: if processing an uploaded CSV fails with an exception at any step
\* (the 500 response), plot_image_cache and the session's
\* processed_data_keys are exactly as they were before the request.
\* Under Spec the request starts from an empty cache and a session without
\* keys, so "as before" is "still empty".
C24_FailureRestores ==
  (pc = "done" /\ response # <<>> /\ response[1].status = 500) =>
     /\ plot_image_cache = <<>>
     /\ session[request[1].sid] = <<>>

\* ---------------------------------------------------------------------
\* C28: every calendar hour that contains at least one retained reading
\* (non-null output, parseable timestamp) yields exactly one bucket in the
\* hourly series, whatever the values (null included) of the other columns
\* of the readings of that hour.
C28_BucketPerHour ==
  (request # <<>> /\ df_hourly # <<>>) =>
    \A k \in DOMAIN File.rows :
      IsRetained(File.rows[k]) =>
        Cardinality({i \in DOMAIN Hourly :
                       Hourly[i]["date"] = HourOf(File.rows[k]["Timestamp"])}) = 1

\* ---------------------------------------------------------------------
\* C27: after a successful upload the anomalies list stored in the session
\* holds exactly the hourly buckets whose anomaly flag is true, one entry
\* per bucket in ascending hour order, each with that bucket's output and
\* z-score, and every listed z-score satisfies |z_score| > 3.0.
C27_AnomalyList ==
  (pc = "done" /\ response # <<>> /\ response[1].status = 302) =>
    LET an      == session[request[1].sid][1].anomalies
        out     == Outputs(df_hourly[1])
        z       == ZScores(out)
        flagged == {i \in DOMAIN Hourly : Hourly[i]["anomaly"]}
    IN  /\ Len(an) = Cardinality(flagged)
        /\ \A j \in DOMAIN an :
             \E i \in flagged :
               /\ an[j].timestamp =
                    <<Hourly[i]["date"] \div DayMinutes,
                      (Hourly[i]["date"] % DayMinutes) \div HourMinutes, 0, 0>>
               /\ an[j].energy_output = out[i]
               /\ an[j].z_score = z[i]
               /\ Exceeds(an[j].z_score, FromInt(DefaultThreshold))
               /\ \A k \in DOMAIN an :
                    j < k => \E g \in flagged : /\ i < g
                                                /\ an[k].energy_output = out[g]
                                                /\ an[k].timestamp[1] * DayMinutes
                                                     + an[k].timestamp[2] * HourMinutes
                                                     = Hourly[g]["date"]

C27_Witness ==
  /\ pc = "done" /\ response # <<>> /\ response[1].status = 302
  /\ File = TwoOutlierFile
  /\ Len(Hourly) = 2 * LongHours - 1
  /\ Len(session[request[1].sid][1].anomalies) = 2
  /\ session[request[1].sid][1].anomalies[1].timestamp = <<0, 2, 0, 0>>
  /\ session[request[1].sid][1].anomalies[2].timestamp[1] * (DayMinutes \div HourMinutes)
       + session[request[1].sid][1].anomalies[2].timestamp[2] = 2 * LongHours - 3
  /\ session[request[1].sid][1].anomalies[1].energy_output = <<4, 1>>

\* ---------------------------------------------------------------------
\* C22: an upload POST that has no csv_file part, an empty filename, or a
\* filename whose text after the last dot is not 'csv' (compared without
\* regard to case; a name without a dot is rejected) is answered with
\* status 400, and leaves the session's processed_data_keys and
\* plot_image_cache unchanged.
EndsWithDotCsv(n) ==
  /\ Len(n) >= 4
  /\ n[Len(n) - 3] = "."
  /\ n[Len(n) - 2] \in {"c", "C"}
  /\ n[Len(n) - 1] \in {"s", "S"}
  /\ n[Len(n)] \in {"v", "V"}

C22_Rejected ==
  (request # <<>> /\ (request[1].part # "csv_file" \/ ~EndsWithDotCsv(request[1].filename))) =>
    /\ pc = "done"
    /\ response # <<>> /\ response[1].status = 400
    /\ session[request[1].sid] = <<>>
    /\ plot_image_cache = <<>>
    /\ plots_keys = <<>> /\ df = <<>>

C22_Witness ==
  /\ request # <<>>
  /\ request[1].part = "csv_file"
  /\ request[1].filename = <<"c", "s", "v">>
  /\ pc = "done"
  /\ response[1] = [status |-> 400, body |-> "Invalid file type. Please upload a CSV file."]
  /\ session[request[1].sid] = <<>>
  /\ plot_image_cache = <<>>

\* ---------------------------------------------------------------------
\* C26: for every hourly series of at most 10 buckets, zscore labelling
\* with the sample standard deviation and threshold 3.0 flags no bucket,
\* whatever the outputs; a single deviating bucket among otherwise
\* identical buckets is flagged only when there are at least 11 buckets.
\* 10 is DefaultThreshold^2 + 1: the largest |z| among n values is
\* (n - 1) / sqrt(n).
SingleDeviating(s, k) ==
  /\ \A i, j \in DOMAIN s \ {k} : s[i] = s[j]
  /\ \E i \in DOMAIN s \ {k} : s[i] # s[k]

C26_ShortSeries ==
  (pc = "labelled" /\ threshold = FromInt(DefaultThreshold)) =>
    LET n == Len(Hourly)
    IN  /\ n <= DefaultThreshold * DefaultThreshold + 1 =>
             \A i \in DOMAIN Hourly : ~labels[1][i]
        /\ \A k \in DOMAIN Hourly :
             (SingleDeviating(Outputs(df_hourly[1]), k) /\ labels[1][k]) =>
                n >= DefaultThreshold * DefaultThreshold + 2

C26_Witness ==
  /\ pc = "labelled"
  /\ Len(Hourly) = LongHours
  /\ SingleDeviating(Outputs(df_hourly[1]), 3)
  /\ labels[1][3]
  /\ \A i \in DOMAIN Hourly : i # 3 => ~labels[1][i]

\* ---------------------------------------------------------------------
\* C21: for the ensemble strategy a bucket is flagged anomalous (true)
\* exactly when the isolation ensemble, fitted once on the output column
\* alone with contamination 0.05 and random seed 42 by default, labels it
\* an outlier (-1); inliers map to false and no score is produced.
C21_EnsembleDecision ==
  [][(pc = "label" /\ pc' = "labelled") =>
       LET model == model_params[1]
           out   == Outputs(df_hourly[1])
       IN  /\ model_params' = model_params
           /\ model.contamination = <<1, 20>>
           /\ model.random_state = 42
           /\ model.X = [i \in DOMAIN out |-> <<out[i]>>]
           /\ DOMAIN labels'[1] = DOMAIN out
           /\ \A i \in DOMAIN out :
                /\ labels'[1][i] = TRUE <=> model.label[<<out[i]>>] = -1
                /\ labels'[1][i] = FALSE <=> model.label[<<out[i]>>] = 1
                /\ df_hourly'[1].rows[i]["anomaly"] = labels'[1][i]
                /\ \A j \in DOMAIN out : out[i] = out[j] => labels'[1][i] = labels'[1][j]
           /\ df_hourly'[1].cols = df_hourly[1].cols \cup {"anomaly"}
           /\ {"z_score", "score"} \cap df_hourly'[1].cols = {}]_vars

C21_Witness ==
  /\ pc = "labelled"
  /\ model_params # <<>> /\ DOMAIN model_params[1] = {"contamination", "random_state", "X", "label"}
  /\ Len(Hourly) = 3
  /\ Hourly[1]["output_kwh"] = Hourly[3]["output_kwh"]
  /\ Hourly[1]["AirTemperature"] # Hourly[3]["AirTemperature"]
  /\ labels[1] = <<FALSE, TRUE, FALSE>>
  /\ "z_score" \notin df_hourly[1].cols

\* ---------------------------------------------------------------------
\* C23: after any sequence of upload, dashboard and logout requests by any
\* number of sessions, every key in plot_image_cache is a plot id listed in
\* the processed_data_keys of some session: no cache entry remains that no
\* later dashboard or logout request can remove.
C23_NoOrphans ==
  (\A t \in Threads : threads[t].handler = "idle") =>
    \A id \in DOMAIN plot_image_cache :
      \E c \in Sessions : session[c] # <<>> /\ id \in PlotIds(session[c][1])

\* ---------------------------------------------------------------------
\* C25: two dashboard requests that run concurrently and carry the same
\* session's processed_data_keys both complete without raising: under
\* every interleaving of their membership check and pop on
\* plot_image_cache, no request pops a plot id that is no longer in the
\* cache.
C25_NoRaise ==
  \A t, u \in Threads :
    (/\ t # u
     /\ threads[t].handler = "dashboard" /\ threads[u].handler = "dashboard"
     /\ threads[t].keys # <<>> /\ threads[u].keys = threads[t].keys) =>
      /\ threads[t].pc = "pop" => LoopId(threads[t]) \in DOMAIN plot_image_cache
      /\ threads[t].response # <<>> => threads[t].response[1].status = 200

\* ---------------------------------------------------------------------
\* C29: logout removes from plot_image_cache exactly the plot ids listed in
\* the requesting session's processed_data_keys and clears that session
\* key; cache entries created by other sessions' uploads are unchanged, and
\* logout with no processed_data_keys changes nothing.  Stated on every
\* step a logout request takes: the check of the session, the eviction of
\* one plot id, and the response that sets the cookie.
C29_LogoutFrame ==
  [][\A t \in Threads :
       (threads[t].handler = "logout" /\ threads'[t] # threads[t]) =>
          LET th == threads[t]
          IN  /\ th.pc = "begin" =>
                   /\ plot_image_cache' = plot_image_cache
                   /\ session' = session
                   /\ th.sess = <<>> => threads'[t].pc = "respond" /\ ~threads'[t].modified
              /\ th.pc = "check" =>
                   /\ LoopId(th) \in PlotIds(th.keys[1])
                   /\ th.keys = th.sess
                   /\ DOMAIN plot_image_cache' = DOMAIN plot_image_cache \ {LoopId(th)}
                   /\ \A id \in DOMAIN plot_image_cache' :
                        plot_image_cache'[id] = plot_image_cache[id]
                   /\ session' = session
              /\ th.pc = "respond" =>
                   /\ plot_image_cache' = plot_image_cache
                   /\ \A c \in Clients \ {th.client} : session'[c] = session[c]
                   /\ IF th.keys = <<>>
                      THEN session' = session
                      ELSE /\ session'[th.client] = <<>>
                           /\ PlotIds(th.keys[1]) \cap DOMAIN plot_image_cache = {}]_vars

C29_Witness ==
  \E t \in Threads :
    /\ threads[t].handler = "logout" /\ threads[t].pc = "respond"
    /\ threads[t].client = "s1"
    /\ threads[t].keys # <<>>
    /\ session["s2"] # <<>>
    /\ DOMAIN plot_image_cache = PlotIds(session["s2"][1])
    /\ PlotIds(threads[t].keys[1]) \cap DOMAIN plot_image_cache = {}
    /\ threads[t].modified /\ threads[t].sess = <<>>

\* ---------------------------------------------------------------------
\* C30: an upload's result is displayed at most once per session: the first
\* dashboard request after a successful upload shows that upload's stats,
\* anomalies, summary and all four cached plots, and the next dashboard
\* request of the same session with no upload in between shows the mock
\* stats, mock anomalies and the placeholder summary.  Stated on every
\* dashboard response that displays a result: the result has not been
\* displayed before and comes with all four plots.
C30_DisplayedOnce ==
  [][\A t \in Threads :
       (/\ threads[t].handler = "dashboard" /\ threads[t].pc = "respond"
        /\ threads'[t].handler = "idle"
        /\ threads[t].response[1] = [status |-> 200, body |-> "dashboard"]) =>
          /\ PlotIds(threads[t].keys[1]) \cap history.consumed = {}
          /\ threads[t].retrieved = Range(PlotNames)]_vars

====
